---- MODULE Spec2Model ----
(***************************************************************************)
(* Logspec lines filter: the rule-table parser (parseMatrix with its       *)
(* country-token extractor and its similarity inference) and the           *)
(* membership filter (filterLogspecLines / countryMatches).                *)
(* Spec runs the parser and then the filter, SpecMatrix the parser alone, *)
(* SpecCountries one call of parseCountries and countryMatches, SpecApp    *)
(* the App component's handlers and effects around both, SpecExcel one     *)
(* read of a spreadsheet by parseExcelFile, and SpecTable the columns, the *)
(* header drag and the column filters of the ResultsTable component.       *)
(*                                                                         *)
(* Texts are TLA+ strings; a character is a string of length 1, read with  *)
(* SubSeq.  A Map<string, Set<string>> is a function from its keys to sets *)
(* of strings.  The iteration order of the lookup Map is not kept: the     *)
(* only loop over it (findSimilarShipMethods) builds a list whose elements *)
(* are then unioned.  The iteration order of entriesWithEmptyCountries is  *)
(* kept (a sequence), because pass 2 writes the lookup while it walks it.  *)
(***************************************************************************)
EXTENDS Naturals, Sequences, FiniteSets, TLC

VARIABLES
    matrixText,                 \* parseMatrix: its argument
    lines,                      \* parseMatrix: matrixText.split('\n')
    li,                         \* parseMatrix: index of the next line of pass 1
    lookup,                     \* parseMatrix: the Map being built, later the matrix
    entriesWithEmptyCountries,  \* parseMatrix: <<shipMethod, count>> in insertion order
    ei,                         \* parseMatrix: index of the next entry of pass 2
    pass1Lookup,                \* history: the lookup as pass 1 left it
    merges,                     \* history: [target, source, size] of every pass-2 merge
    ruleTexts,                  \* history: per key, the country texts of its accepted lines
    rows,                       \* filterLogspecLines: its argument
    fi,                         \* filterLogspecLines: index of the next row
    filtered,                   \* filterLogspecLines: the rows kept so far
    pc,                         \* "idle" | "pass1" | "pass2" | "parsed" | "filter" | "done"
    callCountriesStr,           \* parseCountries: its argument countriesStr
    callCountries,              \* parseCountries: the set it returns
    callCountry,                \* countryMatches: its argument country
    callMatched,                \* countryMatches: what it returns
    cpc,                        \* "idle" | "call" | "parsed" | "matched"
    heap,                       \* App: the Map objects made so far, by identity
    matrix,                     \* App state: the identity of the active Map
    allRows,                    \* App state
    filteredRows,               \* App state
    loading,                    \* App state
    error,                      \* App state: a message, or NoError for null
    matrixLoaded,               \* App state
    mounted,                    \* App: the mount effect has started
    effectDue,                  \* App: matrix or allRows changed since the filter effect ran
    pending,                    \* App: the file reads that have not settled yet, by event
    caller,                     \* App: the handler that called parseMatrix
    events,                     \* App: the user events so far, in order
    excelFile,                  \* parseExcelFile: its argument
    excelResult,                \* parseExcelFile: what its promise settled with
    xpc,                        \* "idle" | "reading" | "settled"
    data,                       \* ResultsTable: its prop data
    visibleColumns,             \* ResultsTable state, in order of insertion
    columnOrder,                \* ResultsTable state
    draggedColumn,              \* ResultsTable state: a key, or NoColumn for null
    dragOverColumn,             \* ResultsTable state: a key, or NoColumn for null
    columnFilters,              \* ResultsTable state: per key, the values selected
    handled                     \* history: the handlers of the table called so far

vars == <<matrixText, lines, li, lookup, entriesWithEmptyCountries, ei,
          pass1Lookup, merges, ruleTexts, rows, fi, filtered, pc,
          callCountriesStr, callCountries, callCountry, callMatched, cpc,
          heap, matrix, allRows, filteredRows, loading, error, matrixLoaded,
          mounted, effectDue, pending, caller, events,
          excelFile, excelResult, xpc,
          data, visibleColumns, columnOrder, draggedColumn, dragOverColumn,
          columnFilters, handled>>

\* The state of parseMatrix and filterLogspecLines.
pipelineVars == <<matrixText, lines, li, lookup, entriesWithEmptyCountries, ei,
                  pass1Lookup, merges, ruleTexts, rows, fi, filtered, pc>>

\* The state of a call of parseCountries and of countryMatches on its own.
countryVars == <<callCountriesStr, callCountries, callCountry, callMatched, cpc>>

\* The state of the application around the two.
appVars == <<heap, matrix, allRows, filteredRows, loading, error, matrixLoaded,
             mounted, effectDue, pending, caller, events>>

\* The state of a call of parseExcelFile on its own.
excelVars == <<excelFile, excelResult, xpc>>

\* The state of the results table.
tableVars == <<data, visibleColumns, columnOrder, draggedColumn, dragOverColumn,
               columnFilters, handled>>

(***************************************************************************)
(* Bounds of the model.                                                    *)
(***************************************************************************)
MaxLines == 3       \* lines of a rule table of the matrix specification
MaxRows == 2        \* rows handed to the filter

(***************************************************************************)
(* String primitives of the JavaScript runtime, as the code uses them.     *)
(***************************************************************************)
Char(s, i) == SubSeq(s, i, i)

UpperLetters == "ABCDEFGHIJKLMNOPQRSTUVWXYZ"
LowerLetters == "abcdefghijklmnopqrstuvwxyz"
Digits == "0123456789"

UpperSet == {Char(UpperLetters, i) : i \in 1..26}
LowerSet == {Char(LowerLetters, i) : i \in 1..26}
DigitSet == {Char(Digits, i) : i \in 1..10}

LowerOf == [c \in UpperSet |-> Char(LowerLetters, CHOOSE i \in 1..26 : Char(UpperLetters, i) = c)]
UpperOf == [c \in LowerSet |-> Char(UpperLetters, CHOOSE i \in 1..26 : Char(LowerLetters, i) = c)]

\* String.prototype.trim strips these (the white space of the model's alphabet).
WhiteSpace == {" ", "\t", "\n", "\r"}

IsSpace(c) == c \in WhiteSpace

\* \w of a regular expression.
WordChars == UpperSet \cup LowerSet \cup DigitSet \cup {"_"}

\* \w that takes only letters for word characters.
IsWordChar_LettersOnly(c) == c \in UpperSet \cup LowerSet

IsWordChar(c) == c \in WordChars

RECURSIVE TrimStart(_)
TrimStart(s) ==
    IF s # "" /\ IsSpace(Char(s, 1)) THEN TrimStart(SubSeq(s, 2, Len(s))) ELSE s

RECURSIVE TrimEnd(_)
TrimEnd(s) ==
    IF s # "" /\ IsSpace(Char(s, Len(s))) THEN TrimEnd(SubSeq(s, 1, Len(s) - 1)) ELSE s

Trim(s) == TrimEnd(TrimStart(s))

RECURSIVE ToLowerCase(_)
ToLowerCase(s) ==
    IF s = "" THEN ""
    ELSE LET c == Char(s, 1)
         IN  (IF c \in UpperSet THEN LowerOf[c] ELSE c) \o ToLowerCase(SubSeq(s, 2, Len(s)))

RECURSIVE ToUpperCase(_)
ToUpperCase(s) ==
    IF s = "" THEN ""
    ELSE LET c == Char(s, 1)
         IN  (IF c \in LowerSet THEN UpperOf[c] ELSE c) \o ToUpperCase(SubSeq(s, 2, Len(s)))

\* The position of the first separator of s at or after i, Len(s) + 1 if none.
NextSeparator(s, seps, i) ==
    LET at == {j \in i..Len(s) : Char(s, j) \in seps}
    IN  IF at = {} THEN Len(s) + 1 ELSE CHOOSE j \in at : \A k \in at : j <= k

\* The pieces of s from position i on.
RECURSIVE SplitFrom(_, _, _)
SplitFrom(s, seps, i) ==
    LET j == NextSeparator(s, seps, i)
    IN  IF j > Len(s) THEN <<SubSeq(s, i, Len(s))>>
        ELSE <<SubSeq(s, i, j - 1)>> \o SplitFrom(s, seps, j + 1)

\* s.split(sep) for a separator that is one character of seps: the pieces
\* between the separators, empty pieces kept, in order.
Split(s, seps) == SplitFrom(s, seps, 1)

RECURSIVE Join(_, _)
Join(parts, sep) ==
    IF Len(parts) = 0 THEN ""
    ELSE IF Len(parts) = 1 THEN parts[1]
    ELSE parts[1] \o sep \o Join(Tail(parts), sep)

Includes(s, sub) ==
    \E i \in 1..(Len(s) - Len(sub) + 1) : SubSeq(s, i, i + Len(sub) - 1) = sub

StartsWith(s, p) == Len(p) <= Len(s) /\ SubSeq(s, 1, Len(p)) = p

\* The position of the first occurrence of pat in s at or after i, 0 if none.
IndexOf(s, pat, i) ==
    LET at == {j \in i..(Len(s) - Len(pat) + 1) : SubSeq(s, j, j + Len(pat) - 1) = pat}
    IN  IF at = {} THEN 0 ELSE CHOOSE j \in at : \A k \in at : j <= k

\* s.replace(/pat/g, rep): one scan from the left, the replacement is not rescanned.
RECURSIVE ReplaceFrom(_, _, _, _)
ReplaceFrom(s, pat, rep, i) ==
    LET j == IndexOf(s, pat, i)
    IN  IF j = 0 THEN SubSeq(s, i, Len(s))
        ELSE SubSeq(s, i, j - 1) \o rep \o ReplaceFrom(s, pat, rep, j + Len(pat))

ReplaceAll(s, pat, rep) == ReplaceFrom(s, pat, rep, 1)

IsUpperRun(s) == \A i \in 1..Len(s) : Char(s, i) \in UpperSet

(***************************************************************************)
(* euCountries.ts                                                          *)
(***************************************************************************)
EU_COUNTRIES ==
    {"AT", "BE", "BG", "HR", "CY", "CZ", "DK", "EE", "FI", "FR", "DE", "GR",
     "HU", "IE", "IT", "LV", "LT", "LU", "MT", "NL", "PL", "PT", "RO", "SK",
     "SI", "ES", "SE", "CH", "NO"}

isEUCountry(countryCode) == ToUpperCase(countryCode) \in EU_COUNTRIES

isCountryOutsideEU(country) == ~isEUCountry(country)

(***************************************************************************)
(* parseCountries                                                          *)
(***************************************************************************)
OUTSIDE_EU == "__OUTSIDE_EU__"

\* The list of 'Within EU' without Switzerland.
euCountries_NoCH ==
    {"AT", "BE", "BG", "HR", "CY", "CZ", "DK", "EE", "FI", "FR", "DE", "GR",
     "HU", "IE", "IT", "LV", "LT", "LU", "MT", "NL", "PL", "PT", "RO", "SK",
     "SI", "ES", "SE", "NO"}

\* The list parseCountries adds for 'Within EU' (its own literal, not EU_COUNTRIES).
euCountries ==
    {"AT", "BE", "BG", "HR", "CY", "CZ", "DK", "EE", "FI", "FR", "DE", "GR",
     "HU", "IE", "IT", "LV", "LT", "LU", "MT", "NL", "PL", "PT", "RO", "SK",
     "SI", "ES", "SE", "CH", "NO"}

skipCodes == {"EA", "XY", "NC"}

MinCodeLen == 2
MaxCodeLen == 3

\* \b between positions i and i+1 of s (0 and Len(s) are the ends of the text).
WordBoundary(s, i) ==
    LET left  == i >= 1 /\ IsWordChar(Char(s, i))
        right == i + 1 <= Len(s) /\ IsWordChar(Char(s, i + 1))
    IN  left # right

\* Every match of /\b([A-Z]{2,3})\b/g in s: a match starts at a \b, at i, and
\* has k letters up to the next \b.
countryCodePattern(s) ==
    LET starts == {i \in 1..Len(s) : Char(s, i) \in UpperSet /\ WordBoundary(s, i - 1)}
    IN  {SubSeq(s, m[1], m[1] + m[2] - 1) :
            m \in {q \in starts \X (MinCodeLen..MaxCodeLen) :
                     /\ q[1] + q[2] - 1 <= Len(s)
                     /\ WordBoundary(s, q[1] + q[2] - 1)
                     /\ IsUpperRun(SubSeq(s, q[1], q[1] + q[2] - 1))}}

\* countriesStr.split(/[|/]/).map(trim).filter(length 2 or 3), then /^[A-Z]{2,3}$/.
pipeSeparated(s) ==
    LET pieces == Split(s, {"|", "/"})
    IN  {t \in {Trim(pieces[j]) : j \in 1..Len(pieces)} :
            /\ Len(t) >= MinCodeLen
            /\ Len(t) <= MaxCodeLen
            /\ IsUpperRun(t)}

\* parseCountries that extracts codes only from a text without a region keyword.
parseCountries_RegionOnly(countriesStr) ==
    IF countriesStr = "" THEN {}
    ELSE IF Includes(countriesStr, "Within EU") \/ Includes(countriesStr, "Outside of EU")
    THEN (IF Includes(countriesStr, "Within EU") THEN euCountries ELSE {})
         \cup (IF Includes(countriesStr, "Outside of EU") THEN {OUTSIDE_EU} ELSE {})
    ELSE (countryCodePattern(countriesStr) \ skipCodes)
         \cup (pipeSeparated(countriesStr) \ skipCodes)

\* parseCountries whose pipe or slash separated list is not checked against skipCodes2.
parseCountries_PipesUnfiltered(countriesStr) ==
    IF countriesStr = "" THEN {}
    ELSE (IF Includes(countriesStr, "Within EU") THEN euCountries ELSE {})
         \cup (IF Includes(countriesStr, "Outside of EU") THEN {OUTSIDE_EU} ELSE {})
         \cup (countryCodePattern(countriesStr) \ skipCodes)
         \cup pipeSeparated(countriesStr)

\* parseCountries that forgets the sentinel of 'Outside of EU'.
parseCountries_NoSentinel(countriesStr) ==
    IF countriesStr = "" THEN {}
    ELSE (IF Includes(countriesStr, "Within EU") THEN euCountries ELSE {})
         \cup (countryCodePattern(countriesStr) \ skipCodes)
         \cup (pipeSeparated(countriesStr) \ skipCodes)

\* parseCountries that forgets to expand 'Within EU'.
parseCountries_NoExpansion(countriesStr) ==
    IF countriesStr = "" THEN {}
    ELSE (IF Includes(countriesStr, "Outside of EU") THEN {OUTSIDE_EU} ELSE {})
         \cup (countryCodePattern(countriesStr) \ skipCodes)
         \cup (pipeSeparated(countriesStr) \ skipCodes)

parseCountries(countriesStr) ==
    IF countriesStr = "" THEN {}
    ELSE (IF Includes(countriesStr, "Within EU") THEN euCountries ELSE {})
         \cup (IF Includes(countriesStr, "Outside of EU") THEN {OUTSIDE_EU} ELSE {})
         \cup (countryCodePattern(countriesStr) \ skipCodes)
         \cup (pipeSeparated(countriesStr) \ skipCodes)

(***************************************************************************)
(* findSimilarShipMethods                                                  *)
(***************************************************************************)
MinPrefixParts == 2
MinSiblingCountries == 5

\* basePattern that leaves '_UD' in place.
basePattern_KeepsUD(shipMethod) ==
    ToLowerCase(
        ReplaceAll(
            ReplaceAll(
                ReplaceAll(
                    ReplaceAll(shipMethod, "_LICENSE", ""),
                    "AIRHAZ", "AIR"),
                "_HAZ", ""),
            "_DEF", ""))

\* The chain of replace calls and the toLowerCase that both keys go through.
basePattern(shipMethod) ==
    ToLowerCase(
        ReplaceAll(
            ReplaceAll(
                ReplaceAll(
                    ReplaceAll(
                        ReplaceAll(shipMethod, "_LICENSE", ""),
                        "_UD", ""),
                    "AIRHAZ", "AIR"),
                "_HAZ", ""),
            "_DEF", ""))

basePrefix(shipMethod) ==
    LET parts == Split(shipMethod, {"_"})
    IN  IF Len(parts) > MinPrefixParts
        THEN ToLowerCase(Join(SubSeq(parts, 1, Len(parts) - 1), "_"))
        ELSE ""

\* sharesBasePrefix without the threshold on the sibling's countries.
sharesBasePrefix_NoThreshold(prefix, method, countries) ==
    /\ prefix # ""
    /\ StartsWith(ToLowerCase(method), prefix \o "_")

\* Whether the second branch of the loop accepts method for a target with this prefix.
sharesBasePrefix(prefix, method, countries) ==
    /\ prefix # ""
    /\ StartsWith(ToLowerCase(method), prefix \o "_")
    /\ Cardinality(countries) >= MinSiblingCountries

findSimilarShipMethods(shipMethod, lk) ==
    LET pattern == basePattern(shipMethod)
        prefix  == basePrefix(shipMethod)
    IN  {method \in DOMAIN lk :
            /\ method # shipMethod
            /\ lk[method] # {}
            /\ \/ basePattern(method) = pattern
               \/ sharesBasePrefix(prefix, method, lk[method])}

(***************************************************************************)
(* parseMatrix                                                             *)
(***************************************************************************)
EmptyLookup == [k \in {} |-> {}]

\* The fields of a line: line.trim().split('\t').
lineParts(line) == Split(Trim(line), {"\t"})

MinParts == 3

\* prefix.match(/^LogSpec$/i)
isLogSpecPrefix(prefix) == ToLowerCase(prefix) = "logspec"

\* The line passes every `continue` of the first loop.
lineAccepted(line) ==
    LET parts == lineParts(line)
    IN  /\ Trim(line) # ""
        /\ Len(parts) >= MinParts
        /\ isLogSpecPrefix(Trim(parts[1]))
        /\ Trim(parts[2]) # ""

\* lineShipMethod without the trim of the field.
lineShipMethod_Untrimmed(line) == lineParts(line)[2]

lineShipMethod(line) == Trim(lineParts(line)[2])

lineCountriesStr(line) == Trim(lineParts(line)[3])

\* addCountries that replaces the set of the key by the countries of the line.
addCountries_Overwrite(lk, shipMethod, countries) ==
    [k \in DOMAIN lk \cup {shipMethod} |-> IF k = shipMethod THEN countries ELSE lk[k]]

\* if (!lookup.has(k)) lookup.set(k, new Set()); countries.forEach(c => lookup.get(k).add(c))
addCountries(lk, shipMethod, countries) ==
    [k \in DOMAIN lk \cup {shipMethod} |->
        (IF k \in DOMAIN lk THEN lk[k] ELSE {}) \cup (IF k = shipMethod THEN countries ELSE {})]

\* entriesWithEmptyCountries.set(k, (entriesWithEmptyCountries.get(k) || 0) + 1)
countEmptyEntry(entries, shipMethod) ==
    IF \E i \in 1..Len(entries) : entries[i][1] = shipMethod
    THEN [i \in 1..Len(entries) |->
            IF entries[i][1] = shipMethod THEN <<shipMethod, entries[i][2] + 1>> ELSE entries[i]]
    ELSE Append(entries, <<shipMethod, 1>>)

\* hasEmptyCountries that looks at the parsed set only.
hasEmptyCountries_AnyEmptySet(countries, countriesStr) == countries = {}

\* The condition under which a line is recorded in entriesWithEmptyCountries.
hasEmptyCountries(countries, countriesStr) == countries = {} /\ Trim(countriesStr) = ""

\* One iteration of the first loop.
Pass1Step ==
    /\ pc = "pass1"
    /\ li <= Len(lines)
    /\ li' = li + 1
    /\ IF lineAccepted(lines[li])
       THEN LET shipMethod   == lineShipMethod(lines[li])
                countriesStr == lineCountriesStr(lines[li])
                countries    == parseCountries(countriesStr)
            IN  /\ entriesWithEmptyCountries' =
                      IF hasEmptyCountries(countries, countriesStr)
                      THEN countEmptyEntry(entriesWithEmptyCountries, shipMethod)
                      ELSE entriesWithEmptyCountries
                /\ lookup' = addCountries(lookup, shipMethod, countries)
                /\ ruleTexts' = addCountries(ruleTexts, shipMethod, {countriesStr})
       ELSE UNCHANGED <<lookup, entriesWithEmptyCountries, ruleTexts>>
    /\ UNCHANGED <<matrixText, lines, ei, pass1Lookup, merges, rows, fi, filtered, pc>>
    /\ UNCHANGED <<countryVars, appVars, excelVars, tableVars>>

\* The first loop ends; the second starts.
Pass1Done ==
    /\ pc = "pass1"
    /\ li > Len(lines)
    /\ pc' = "pass2"
    /\ ei' = 1
    /\ pass1Lookup' = lookup
    /\ UNCHANGED <<matrixText, lines, li, lookup, entriesWithEmptyCountries, merges,
                   ruleTexts, rows, fi, filtered>>
    /\ UNCHANGED <<countryVars, appVars, excelVars, tableVars>>

\* mergeSources without the test that the set of shipMethod is empty.
mergeSources_Unguarded(shipMethod, lk) ==
    IF shipMethod \in DOMAIN lk
    THEN findSimilarShipMethods(shipMethod, lk)
    ELSE {}

\* The similar methods whose countries the second loop merges into shipMethod.
mergeSources(shipMethod, lk) ==
    IF shipMethod \in DOMAIN lk /\ lk[shipMethod] = {}
    THEN findSimilarShipMethods(shipMethod, lk)
    ELSE {}

\* Pass2Step that walks entriesWithEmptyCountries from its last entry to its first.
Pass2Step_Reversed ==
    /\ pc = "pass2"
    /\ ei <= Len(entriesWithEmptyCountries)
    /\ ei' = ei + 1
    /\ LET shipMethod == entriesWithEmptyCountries[Len(entriesWithEmptyCountries) + 1 - ei][1]
           similar    == mergeSources(shipMethod, lookup)
       IN  /\ lookup' = IF similar = {} THEN lookup
                        ELSE [lookup EXCEPT ![shipMethod] = UNION {lookup[m] : m \in similar}]
           /\ merges' = merges \cup
                  {[target |-> shipMethod, source |-> m, size |-> Cardinality(lookup[m])] :
                      m \in similar}
    /\ UNCHANGED <<matrixText, lines, li, entriesWithEmptyCountries, pass1Lookup,
                   ruleTexts, rows, fi, filtered, pc>>
    /\ UNCHANGED <<countryVars, appVars, excelVars, tableVars>>

\* One iteration of the second loop.
Pass2Step ==
    /\ pc = "pass2"
    /\ ei <= Len(entriesWithEmptyCountries)
    /\ ei' = ei + 1
    /\ LET shipMethod == entriesWithEmptyCountries[ei][1]
           similar    == mergeSources(shipMethod, lookup)
       IN  /\ lookup' = IF similar = {} THEN lookup
                        ELSE [lookup EXCEPT ![shipMethod] = UNION {lookup[m] : m \in similar}]
           /\ merges' = merges \cup
                  {[target |-> shipMethod, source |-> m, size |-> Cardinality(lookup[m])] :
                      m \in similar}
    /\ UNCHANGED <<matrixText, lines, li, entriesWithEmptyCountries, pass1Lookup,
                   ruleTexts, rows, fi, filtered, pc>>
    /\ UNCHANGED <<countryVars, appVars, excelVars, tableVars>>

\* return lookup
Pass2Done ==
    /\ pc = "pass2"
    /\ ei > Len(entriesWithEmptyCountries)
    /\ pc' = "parsed"
    /\ UNCHANGED <<matrixText, lines, li, lookup, entriesWithEmptyCountries, ei,
                   pass1Lookup, merges, ruleTexts, rows, fi, filtered>>
    /\ UNCHANGED <<countryVars, appVars, excelVars, tableVars>>

\* The lookup and the entriesWithEmptyCountries the first loop builds from ls.
RECURSIVE firstPass(_)
firstPass(ls) ==
    IF Len(ls) = 0 THEN [lookup |-> EmptyLookup, entries |-> <<>>]
    ELSE LET before == firstPass(SubSeq(ls, 1, Len(ls) - 1))
             line   == ls[Len(ls)]
         IN  IF lineAccepted(line)
             THEN LET shipMethod   == lineShipMethod(line)
                      countriesStr == lineCountriesStr(line)
                      countries    == parseCountries(countriesStr)
                  IN  [lookup  |-> addCountries(before.lookup, shipMethod, countries),
                       entries |-> IF hasEmptyCountries(countries, countriesStr)
                                   THEN countEmptyEntry(before.entries, shipMethod)
                                   ELSE before.entries]
             ELSE before

\* The lookup after the second loop has gone through the first n entries.
RECURSIVE secondPass(_, _, _)
secondPass(lk, entries, n) ==
    IF n = 0 THEN lk
    ELSE LET before     == secondPass(lk, entries, n - 1)
             shipMethod == entries[n][1]
             similar    == mergeSources(shipMethod, before)
         IN  IF similar = {} THEN before
             ELSE [before EXCEPT ![shipMethod] = UNION {before[m] : m \in similar}]

\* parseMatrix as a function of its argument: both loops, run to the end.
parseMatrix(text) ==
    LET first == firstPass(Split(text, {"\n"}))
    IN  secondPass(first.lookup, first.entries, Len(first.entries))

(***************************************************************************)
(* countryMatches, filterLogspecLines                                      *)
(***************************************************************************)
\* countryMatches that lets the sentinel admit every country.
countryMatches_IgnoresRegion(country, allowedCountries, isOutsideEU) ==
    \/ ToUpperCase(country) \in allowedCountries
    \/ OUTSIDE_EU \in allowedCountries

countryMatches(country, allowedCountries, isOutsideEU) ==
    \/ ToUpperCase(country) \in allowedCountries
    \/ (OUTSIDE_EU \in allowedCountries /\ isOutsideEU)

\* row.field?.trim(): the trimmed field, or undefined when the row has no such
\* field.  The result is only ever tested with `!`, under which undefined and
\* '' are the same, so undefined is written ''.
optionalTrim(row, field) == IF field \in DOMAIN row THEN Trim(row[field]) ELSE ""

\* The callback without the test of a blank ship method or country.
isLogspecLine_NoBlankTest(row, lk) ==
    LET shipMethod == optionalTrim(row, "shipMethod")
        country    == optionalTrim(row, "country")
    IN  /\ shipMethod \in DOMAIN lk
        /\ lk[shipMethod] # {}
        /\ countryMatches(country, lk[shipMethod], isCountryOutsideEU(country))

\* The callback of rows.filter.
isLogspecLine(row, lk) ==
    LET shipMethod == optionalTrim(row, "shipMethod")
        country    == optionalTrim(row, "country")
    IN  /\ shipMethod # ""
        /\ country # ""
        /\ shipMethod \in DOMAIN lk
        /\ lk[shipMethod] # {}
        /\ countryMatches(country, lk[shipMethod], isCountryOutsideEU(country))

(***************************************************************************)
(* Inputs.                                                                 *)
(***************************************************************************)
SeqsUpTo(S, n) == UNION {[1..k -> S] : k \in 0..n}

\* Lines of rule tables for the matrix specification.
MatrixLines ==
    { "LogSpec\tCARRIER_AIR_STD\tGB|IE",
      "LogSpec\tCARRIER_AIR_STD\tGB|IE|US|JP",
      "LogSpec\tCARRIER_AIR_STD\tWithin EU",
      " LOGSPEC \t CARRIER_AIR_UD_STD \t FR / DE \r",
      "LogSpec\tCARRIER_AIR_UD_STD\t",
      "LogSpec\tCARRIER_AIR_UD_STD\t\tsee standard",
      "LogSpec\tCARRIER_AIR_UD_DG\t\tn/a",
      "logspec\tCarrier_Air_XL\t \tn/a",
      "LogSpec\tCARRIER_AIR_XL\tNC Import Only",
      "LogSpec\tCARRIER_AIR_XL\t\tn/a",
      "LogSpec\tCARRIER_AIR\t\tn/a",
      "LogSpec\t \tGB",
      "\tLogSpec\tCARRIER_AIR_XL\tGB",
      "Method\tCARRIER_AIR_STD\tFR" }

\* The rule table of the pipeline specification; its rule tables are the
\* tables made of some of these lines, in this order.
PipelineTable ==
    << "LogSpec\tFEDEX_GROUND\tFR|DE",
       "LogSpec\tDHL_EXPRESS\tOutside of EU",
       "LogSpec\tUPS_STD\tWithin EU",
       "LogSpec\tTNT_ROAD\tNC Import Only",
       "LogSpec\tFEDEX_GROUND_UD\t\tsee FEDEX_GROUND" >>

\* The elements of seq at the indices of S, in order.
Restrict(seq, S) ==
    LET nth(j) == CHOOSE i \in S : Cardinality({d \in S : d < i}) = j - 1
    IN  [j \in 1..Cardinality(S) |-> seq[nth(j)]]

MatrixTexts == {Join(ls, "\n") : ls \in SeqsUpTo(MatrixLines, MaxLines)}

\* Rule tables without a valid line.
DegenerateTexts == {"\n \n", "Ship Method\tCountries\nFEDEX_GROUND\tFR|DE\n"}

PipelineTexts ==
    {Join(Restrict(PipelineTable, S), "\n") : S \in SUBSET (1..Len(PipelineTable))}
        \cup DegenerateTexts

Row(delivery, shipMethod, country) ==
    [delivery |-> delivery, shipMethod |-> shipMethod, country |-> country]

RowPool ==
    { Row("D1", "FEDEX_GROUND", "FR"),
      Row("D2", "FEDEX_GROUND", "US"),
      Row("D3", " FEDEX_GROUND ", " de "),
      Row("D4", "fedex_ground", "FR"),
      Row("D5", "DHL_EXPRESS", "US"),
      Row("D6", "DHL_EXPRESS", "FR"),
      Row("D7", "UPS_STD", "FR"),
      Row("D8", "FEDEX_GROUND", "PL"),
      Row("D9", "", "FR"),
      Row("D10", "FEDEX_GROUND", "  "),
      Row("D11", "TNT_ROAD", "GB"),
      Row("D12", "FEDEX_GROUND_UD", "fr"),
      [delivery |-> "D13", country |-> "FR"],
      [delivery |-> "D14", shipMethod |-> "DHL_EXPRESS"],
      Row("D15", "UPS_STD", "EU") }

RowSeqs == SeqsUpTo(RowPool, MaxRows)

\* filterLogspecLines as a function of its arguments: rows.filter(callback).
filterLogspecLines(rs, lk) ==
    LET callback(row) == isLogspecLine(row, lk)
    IN  SelectSeq(rs, callback)

\* filterLogspecLines is called with the parsed matrix and some rows.
FilterCall ==
    /\ pc = "parsed"
    /\ \E rs \in RowSeqs : rows' = rs
    /\ fi' = 1
    /\ filtered' = <<>>
    /\ pc' = "filter"
    /\ UNCHANGED <<matrixText, lines, li, lookup, entriesWithEmptyCountries, ei,
                   pass1Lookup, merges, ruleTexts>>
    /\ UNCHANGED <<countryVars, appVars, excelVars, tableVars>>

\* FilterStep that puts a kept row in front of the rows kept before it.
FilterStep_Prepend ==
    /\ pc = "filter"
    /\ fi <= Len(rows)
    /\ fi' = fi + 1
    /\ filtered' = IF isLogspecLine(rows[fi], lookup) THEN <<rows[fi]>> \o filtered ELSE filtered
    /\ UNCHANGED <<matrixText, lines, li, lookup, entriesWithEmptyCountries, ei,
                   pass1Lookup, merges, ruleTexts, rows, pc>>
    /\ UNCHANGED <<countryVars, appVars, excelVars, tableVars>>

\* One call of the filter callback.
FilterStep ==
    /\ pc = "filter"
    /\ fi <= Len(rows)
    /\ fi' = fi + 1
    /\ filtered' = IF isLogspecLine(rows[fi], lookup) THEN Append(filtered, rows[fi]) ELSE filtered
    /\ UNCHANGED <<matrixText, lines, li, lookup, entriesWithEmptyCountries, ei,
                   pass1Lookup, merges, ruleTexts, rows, pc>>
    /\ UNCHANGED <<countryVars, appVars, excelVars, tableVars>>

\* rows.filter returns.
FilterDone ==
    /\ pc = "filter"
    /\ fi > Len(rows)
    /\ pc' = "done"
    /\ UNCHANGED <<matrixText, lines, li, lookup, entriesWithEmptyCountries, ei,
                   pass1Lookup, merges, ruleTexts, rows, fi, filtered>>
    /\ UNCHANGED <<countryVars, appVars, excelVars, tableVars>>

(***************************************************************************)
(* parseCountries and countryMatches, called on their own.                 *)
(***************************************************************************)
\* Country texts of rule lines.
CountryTexts ==
    { "",
      "GB|CH|NO",
      "|GB|CH|NO|",
      "BA/MK/RS",
      "Within EU",
      "Outside of EU",
      "within eu",
      "Within EU / Outside of EU",
      "GB, plus Outside of EU shipments",
      "Within EU|GB|US",
      "Within EU, also US and CA",
      "NC Import Only",
      "NC",
      "EA|XY|NC",
      "|NC|GB|",
      "EA / GB",
      "XY and FR",
      "NCX|ENC",
      "see standard",
      "USA|gb|Fr",
      "GB2|_GB|ABCD|aGB",
      "(GB) FR-DE, IT.",
      "X GB ABCD USA" }

\* Countries of records.
CountryPool == {"JP", "GB", "FR", "fr", "US", "NC", "EU", "PL"}

\* parseCountries(countriesStr) returns.
ParseCountriesCall ==
    /\ cpc = "call"
    /\ callCountries' = parseCountries(callCountriesStr)
    /\ cpc' = "parsed"
    /\ UNCHANGED <<callCountriesStr, callCountry, callMatched>>
    /\ UNCHANGED <<pipelineVars, appVars, excelVars, tableVars>>

\* countryMatches(country, allowedCountries, isCountryOutsideEU(country)) returns,
\* called as the filter calls it, with the set parseCountries returned.
CountryMatchesCall ==
    /\ cpc = "parsed"
    /\ \E c \in CountryPool :
          /\ callCountry' = c
          /\ callMatched' = countryMatches(c, callCountries, isCountryOutsideEU(c))
    /\ cpc' = "matched"
    /\ UNCHANGED <<callCountriesStr, callCountries>>
    /\ UNCHANGED <<pipelineVars, appVars, excelVars, tableVars>>

(***************************************************************************)
(* parseExcelFile, findColumnIndex, getCellValue.                          *)
(* A file is [name, kind, jsonData, text]: kind says what reading it gives *)
(* ("unreadable": the reader fails; "empty": the reader has no result;     *)
(* "corrupt": XLSX.read throws; "workbook": sheet_to_json of its first     *)
(* sheet returns jsonData, a list of rows of cell texts; "text": a text    *)
(* file, file.text() resolves with text).                                  *)
(***************************************************************************)
File(name, kind, jsonData, text) ==
    [name |-> name, kind |-> kind, jsonData |-> jsonData, text |-> text]

\* resolve(parsedRows) and reject(new Error(message)).
Resolved(parsedRows) == [status |-> "resolved", rows |-> parsedRows, message |-> ""]

Rejected(message) == [status |-> "rejected", rows |-> <<>>, message |-> message]

\* The message of the Error XLSX.read throws on the corrupt file of the model.
XLSXReadError == "File is password-protected"

\* What findColumnIndex returns for a column that is not there: -1 in the code,
\* whose indices start at 0, and 0 here, where they start at 1.
NotFound == 0

\* Array.prototype.indexOf
IndexOfElement(seq, v) ==
    IF \E i \in 1..Len(seq) : seq[i] = v
    THEN CHOOSE i \in 1..Len(seq) : seq[i] = v /\ \A j \in 1..(i - 1) : seq[j] # v
    ELSE NotFound

\* findColumnIndex that compares the trimmed headers as they are written.
findColumnIndex_CaseSensitive(headers, possibleNames) ==
    LET trimmedHeaders == [i \in 1..Len(headers) |-> Trim(headers[i])]
        found == {n \in 1..Len(possibleNames) :
                    IndexOfElement(trimmedHeaders, Trim(possibleNames[n])) # NotFound}
    IN  IF found = {} THEN NotFound
        ELSE IndexOfElement(trimmedHeaders,
                            Trim(possibleNames[CHOOSE n \in found : \A o \in found : n <= o]))

\* The index of the first header that is, lowercased and trimmed, the first
\* of possibleNames that some header is.
findColumnIndex(headers, possibleNames) ==
    LET lowerHeaders == [i \in 1..Len(headers) |-> Trim(ToLowerCase(headers[i]))]
        found == {n \in 1..Len(possibleNames) :
                    IndexOfElement(lowerHeaders, Trim(ToLowerCase(possibleNames[n]))) # NotFound}
    IN  IF found = {} THEN NotFound
        ELSE IndexOfElement(lowerHeaders,
                            Trim(ToLowerCase(possibleNames[CHOOSE n \in found : \A o \in found : n <= o])))

\* getCellValue that returns the cell as it is written.
getCellValue_Untrimmed(row, index) ==
    IF index = NotFound \/ index > Len(row) THEN "" ELSE row[index]

getCellValue(row, index) ==
    IF index = NotFound \/ index > Len(row) THEN "" ELSE Trim(row[index])

\* `value || fallback` of a text.
OrElse(value, fallback) == IF value = "" THEN fallback ELSE value

\* The callback of rows.map: the five fields, then one field per non-empty
\* header, written in the order of the headers (a later header of the same
\* name, or one named like one of the five fields, overwrites).
toDataRow(headers, row) ==
    LET deliveryIdx        == findColumnIndex(headers, <<"Delivery", "Delivery Number">>)
        shipMethodIdx      == findColumnIndex(headers, <<"Ship Method">>)
        countryIdx         == findColumnIndex(headers, <<"Country">>)
        customerIdx        == findColumnIndex(headers, <<"Customer">>)
        outboundPendingIdx == findColumnIndex(headers, <<"Outbound Pending Lines", "Outbound Pending">>)
        fields == [delivery             |-> getCellValue(row, deliveryIdx),
                   shipMethod           |-> getCellValue(row, shipMethodIdx),
                   country              |-> getCellValue(row, countryIdx),
                   customer             |-> OrElse(getCellValue(row, customerIdx), ""),
                   outboundPendingLines |-> OrElse(getCellValue(row, outboundPendingIdx), "0")]
        named  == {i \in 1..Len(headers) : headers[i] # ""}
        last(h) == CHOOSE i \in named : headers[i] = h /\ \A j \in named : headers[j] = h => j <= i
        byHeader == [h \in {headers[i] : i \in named} |-> getCellValue(row, last(h))]
    IN  byHeader @@ fields

HasCells(row) == Len(row) > 0

\* What the promise of parseExcelFile(file) settles with.
parseExcelFile(file) ==
    IF file.kind \in {"unreadable", "empty"} THEN Rejected("Failed to read file")
    ELSE IF file.kind = "corrupt" THEN Rejected(XLSXReadError)
    ELSE LET jsonData == file.jsonData
         IN  IF Len(jsonData) = 0 THEN Rejected("File is empty")
             ELSE LET headers == jsonData[1]
                      dataRows == SelectSeq(Tail(jsonData), HasCells)
                  IN  IF \/ findColumnIndex(headers, <<"Delivery", "Delivery Number">>) = NotFound
                         \/ findColumnIndex(headers, <<"Ship Method">>) = NotFound
                         \/ findColumnIndex(headers, <<"Country">>) = NotFound
                      THEN Rejected("Required columns not found. Expected: Delivery, Ship Method, Country")
                      ELSE Resolved([k \in 1..Len(dataRows) |-> toDataRow(headers, dataRows[k])])

MaxDataRows == 2    \* data rows of a sheet

\* Header rows of sheets.
HeaderRows ==
    { <<"Delivery", "Ship Method", "Country", "Customer", "Outbound Pending Lines">>,
      <<" delivery number ", "SHIP METHOD", "country">>,
      <<"Delivery", "", "Ship Method", "Country", "Outbound Pending">>,
      <<"Delivery", "Country">>,
      <<"Ship Method", "Country", "Customer">>,
      <<"Delivery", "Ship Method", "Customer">>,
      <<>> }

\* Data rows of sheets.
CellRows ==
    { <<"D1", " FEDEX_GROUND ", " fr ", "ACME", "3">>,
      <<"D2", "DHL_EXPRESS", "US">>,
      <<"", "", "">>,
      <<>> }

Sheets == {<<>>} \cup {<<h>> \o rs : h \in HeaderRows, rs \in SeqsUpTo(CellRows, MaxDataRows)}

ExcelFiles ==
    {File("data.xlsx", "workbook", sheet, "") : sheet \in Sheets}
        \cup {File("data.xlsx", kind, <<>>, "") : kind \in {"unreadable", "empty", "corrupt"}}

\* No file is being read.
ExcelIdle ==
    /\ excelFile = File("", "empty", <<>>, "")
    /\ excelResult = Rejected("")
    /\ xpc = "idle"

\* reader.onerror
ReaderOnError ==
    /\ xpc = "reading"
    /\ excelFile.kind = "unreadable"
    /\ excelResult' = parseExcelFile(excelFile)
    /\ xpc' = "settled"
    /\ UNCHANGED excelFile
    /\ UNCHANGED <<pipelineVars, countryVars, appVars, tableVars>>

\* reader.onload
ReaderOnLoad ==
    /\ xpc = "reading"
    /\ excelFile.kind # "unreadable"
    /\ excelResult' = parseExcelFile(excelFile)
    /\ xpc' = "settled"
    /\ UNCHANGED excelFile
    /\ UNCHANGED <<pipelineVars, countryVars, appVars, tableVars>>

(***************************************************************************)
(* App: the state of the component, its two effects and its handlers.      *)
(* A handler or an effect runs to its end, or to its await, before         *)
(* anything else runs; parseMatrix and filterLogspecLines run inside them, *)
(* step by step, on the variables of the pipeline.  An effect that is due  *)
(* runs before the next handler or continuation changes the state.         *)
(***************************************************************************)
\* error === null
NoError == ""

\* There is no application around parseMatrix and filterLogspecLines.
AppIdle ==
    /\ heap = <<>>
    /\ matrix = 0
    /\ allRows = <<>>
    /\ filteredRows = <<>>
    /\ loading = FALSE
    /\ error = NoError
    /\ matrixLoaded = FALSE
    /\ mounted = FALSE
    /\ effectDue = FALSE
    /\ pending = {}
    /\ caller = "none"
    /\ events = <<>>

MaxEvents == 2      \* user events (file selections, resets) of a run of the application

\* The text of ./data/defaultMatrix.txt.
DefaultMatrixText == "LogSpec\tFEDEX_GROUND\tFR|DE\nLogSpec\tFEDEX_GROUND_UD\t\tsee FEDEX_GROUND"

\* A user event: a file chosen or dropped in one of the two uploaders, or a
\* click on 'Reset to Default'.
Selection(uploader, file) == [kind |-> "select", uploader |-> uploader, file |-> file]

ResetClick == [kind |-> "reset", uploader |-> "", file |-> File("", "empty", <<>>, "")]

\* The files the user has for the data uploader.
DataFiles ==
    { File("deliveries.xlsx", "workbook",
           << <<"Delivery", "Ship Method", "Country", "Customer", "Outbound Pending Lines">>,
              <<"D1", " FEDEX_GROUND ", " fr ", "ACME", "3">>,
              <<"D5", "DHL_EXPRESS", "US", "", "">> >>, ""),
      File("backlog.xls", "workbook",
           << <<" delivery number ", "SHIP METHOD", "country">>,
              <<"D2", "FEDEX_GROUND", "US">> >>, ""),
      File("broken.xlsx", "workbook",
           << <<"Delivery", "Country">>, <<"D1", "FR">> >>, ""),
      File("deliveries.csv", "workbook",
           << <<"Delivery", "Ship Method", "Country">>, <<"D1", "FEDEX_GROUND", "FR">> >>, "") }

\* The files the user has for the matrix uploader.
MatrixFiles ==
    { File("matrix.txt", "text", <<>>, "LogSpec\tDHL_EXPRESS\tOutside of EU"),
      File("matrix.xls", "text", <<>>, "LogSpec\tDHL_EXPRESS\tOutside of EU"),
      File("headers.xls", "text", <<>>, "Ship Method\tCountries"),
      File("gone.xlsx", "unreadable", <<>>, "") }

\* The messages of the errors file.text() rejects with.
ReadErrors == {"Failed to read file"}

\* String.prototype.endsWith
EndsWith(s, suffix) ==
    Len(suffix) <= Len(s) /\ SubSeq(s, Len(s) - Len(suffix) + 1, Len(s)) = suffix

\* FileUpload.handleFile hands the file to onFileSelect.
handsOver_AcceptedTypes(file, accept) ==
    \E ext \in {accept[i] : i \in 1..Len(accept)} : EndsWith(file.name, ext)

handsOver(file, accept) == EndsWith(file.name, ".xlsx") \/ EndsWith(file.name, ".xls")

\* The accept attributes of the two uploaders, split at the commas.
DataAccept == <<".xlsx", ".xls">>

MatrixAccept == <<".txt">>

\* The file of the read op, a pending read.
FileOf(op) == events[op.event].file

\* parseMatrix is entered with text: new Map(), matrixText.split('\n'), new Map().
BeginParse(text) ==
    /\ matrixText' = text
    /\ lines' = Split(text, {"\n"})
    /\ li' = 1
    /\ lookup' = EmptyLookup
    /\ entriesWithEmptyCountries' = <<>>
    /\ ei' = 0
    /\ pass1Lookup' = EmptyLookup
    /\ merges' = {}
    /\ ruleTexts' = EmptyLookup
    /\ pc' = "pass1"
    /\ UNCHANGED <<rows, fi, filtered>>

\* Nothing of the application runs and no effect is due: the next event is handled.
AppAtRest == mounted /\ pc = "idle" /\ ~effectDue

\* The mount effect: parseMatrix(defaultMatrix) is called.
MountEffect ==
    /\ ~mounted
    /\ pc = "idle"
    /\ mounted' = TRUE
    /\ caller' = "mount"
    /\ BeginParse(DefaultMatrixText)
    /\ UNCHANGED <<heap, matrix, allRows, filteredRows, loading, error, matrixLoaded,
                   effectDue, pending, events>>
    /\ UNCHANGED <<countryVars, excelVars, tableVars>>

\* The mount effect after parseMatrix: setMatrix(parsedMatrix); setMatrixLoaded(true).
MountEffectEnd ==
    /\ pc = "parsed"
    /\ caller = "mount"
    /\ heap' = Append(heap, lookup)
    /\ matrix' = Len(heap) + 1
    /\ matrixLoaded' = TRUE
    /\ effectDue' = TRUE
    /\ caller' = "none"
    /\ pc' = "idle"
    /\ UNCHANGED <<matrixText, lines, li, lookup, entriesWithEmptyCountries, ei,
                   pass1Lookup, merges, ruleTexts, rows, fi, filtered>>
    /\ UNCHANGED <<allRows, filteredRows, loading, error, mounted, pending, events>>
    /\ UNCHANGED <<countryVars, excelVars, tableVars>>

\* The filter effect that leaves filteredRows alone when the matrix has no key
\* or there are no rows.
FilterEffect_KeepsStale ==
    /\ mounted
    /\ pc = "idle"
    /\ effectDue
    /\ effectDue' = FALSE
    /\ IF DOMAIN heap[matrix] # {} /\ Len(allRows) > 0
       THEN /\ rows' = allRows
            /\ lookup' = heap[matrix]
            /\ fi' = 1
            /\ filtered' = <<>>
            /\ pc' = "filter"
            /\ UNCHANGED filteredRows
       ELSE UNCHANGED <<filteredRows, rows, lookup, fi, filtered, pc>>
    /\ UNCHANGED <<matrixText, lines, li, entriesWithEmptyCountries, ei,
                   pass1Lookup, merges, ruleTexts>>
    /\ UNCHANGED <<heap, matrix, allRows, loading, error, matrixLoaded, mounted,
                   pending, caller, events>>
    /\ UNCHANGED <<countryVars, excelVars, tableVars>>

\* The filter effect: filterLogspecLines(allRows, matrix) is called, or
\* setFilteredRows([]) when the matrix has no key or there are no rows.
FilterEffect ==
    /\ mounted
    /\ pc = "idle"
    /\ effectDue
    /\ effectDue' = FALSE
    /\ IF DOMAIN heap[matrix] # {} /\ Len(allRows) > 0
       THEN /\ rows' = allRows
            /\ lookup' = heap[matrix]
            /\ fi' = 1
            /\ filtered' = <<>>
            /\ pc' = "filter"
            /\ UNCHANGED filteredRows
       ELSE /\ filteredRows' = <<>>
            /\ UNCHANGED <<rows, lookup, fi, filtered, pc>>
    /\ UNCHANGED <<matrixText, lines, li, entriesWithEmptyCountries, ei,
                   pass1Lookup, merges, ruleTexts>>
    /\ UNCHANGED <<heap, matrix, allRows, loading, error, matrixLoaded, mounted,
                   pending, caller, events>>
    /\ UNCHANGED <<countryVars, excelVars, tableVars>>

\* The filter effect after filterLogspecLines: setFilteredRows(filtered).
FilterEffectEnd ==
    /\ pc = "done"
    /\ filteredRows' = filtered
    /\ pc' = "idle"
    /\ UNCHANGED <<matrixText, lines, li, lookup, entriesWithEmptyCountries, ei,
                   pass1Lookup, merges, ruleTexts, rows, fi, filtered>>
    /\ UNCHANGED <<heap, matrix, allRows, loading, error, matrixLoaded, mounted,
                   effectDue, pending, caller, events>>
    /\ UNCHANGED <<countryVars, excelVars, tableVars>>

\* handleDataFileSelect up to its await: setLoading(true); setError(null).
handleDataFileSelect ==
    /\ AppAtRest
    /\ Len(events) < MaxEvents
    /\ \E file \in DataFiles :
          /\ handsOver(file, DataAccept)
          /\ events' = Append(events, Selection("data", file))
    /\ loading' = TRUE
    /\ error' = NoError
    /\ pending' = pending \cup {[kind |-> "data", event |-> Len(events) + 1]}
    /\ UNCHANGED <<heap, matrix, allRows, filteredRows, matrixLoaded, mounted,
                   effectDue, caller>>
    /\ UNCHANGED <<pipelineVars, countryVars, excelVars, tableVars>>

\* parseExcelFile resolves: setAllRows(rows); finally setLoading(false).
DataFileParsed ==
    /\ AppAtRest
    /\ \E op \in pending :
          /\ op.kind = "data"
          /\ parseExcelFile(FileOf(op)).status = "resolved"
          /\ pending' = pending \ {op}
          /\ allRows' = parseExcelFile(FileOf(op)).rows
    /\ effectDue' = TRUE
    /\ loading' = FALSE
    /\ UNCHANGED <<heap, matrix, filteredRows, error, matrixLoaded, mounted, caller, events>>
    /\ UNCHANGED <<pipelineVars, countryVars, excelVars, tableVars>>

\* The catch of handleDataFileSelect that only sets the error.
DataFileFailed_KeepsRows ==
    /\ AppAtRest
    /\ \E op \in pending :
          /\ op.kind = "data"
          /\ parseExcelFile(FileOf(op)).status = "rejected"
          /\ pending' = pending \ {op}
          /\ error' = parseExcelFile(FileOf(op)).message
    /\ UNCHANGED <<allRows, filteredRows, effectDue>>
    /\ loading' = FALSE
    /\ UNCHANGED <<heap, matrix, matrixLoaded, mounted, caller, events>>
    /\ UNCHANGED <<pipelineVars, countryVars, excelVars, tableVars>>

\* parseExcelFile rejects: setError(message); setAllRows([]); setFilteredRows([]);
\* finally setLoading(false).
DataFileFailed ==
    /\ AppAtRest
    /\ \E op \in pending :
          /\ op.kind = "data"
          /\ parseExcelFile(FileOf(op)).status = "rejected"
          /\ pending' = pending \ {op}
          /\ error' = parseExcelFile(FileOf(op)).message
    /\ allRows' = <<>>
    /\ filteredRows' = <<>>
    /\ effectDue' = TRUE
    /\ loading' = FALSE
    /\ UNCHANGED <<heap, matrix, matrixLoaded, mounted, caller, events>>
    /\ UNCHANGED <<pipelineVars, countryVars, excelVars, tableVars>>

\* handleMatrixFileSelect up to its await: setLoading(true); setError(null).
handleMatrixFileSelect ==
    /\ AppAtRest
    /\ Len(events) < MaxEvents
    /\ \E file \in MatrixFiles :
          /\ handsOver(file, MatrixAccept)
          /\ events' = Append(events, Selection("matrix", file))
    /\ loading' = TRUE
    /\ error' = NoError
    /\ pending' = pending \cup {[kind |-> "matrix", event |-> Len(events) + 1]}
    /\ UNCHANGED <<heap, matrix, allRows, filteredRows, matrixLoaded, mounted,
                   effectDue, caller>>
    /\ UNCHANGED <<pipelineVars, countryVars, excelVars, tableVars>>

\* file.text() resolves: parseMatrix(text) is called.
MatrixFileRead ==
    /\ AppAtRest
    /\ \E op \in pending :
          /\ op.kind = "matrix"
          /\ FileOf(op).kind = "text"
          /\ pending' = pending \ {op}
          /\ BeginParse(FileOf(op).text)
    /\ caller' = "upload"
    /\ UNCHANGED <<heap, matrix, allRows, filteredRows, loading, error, matrixLoaded,
                   mounted, effectDue, events>>
    /\ UNCHANGED <<countryVars, excelVars, tableVars>>

\* handleMatrixFileSelect after parseMatrix: setMatrix(parsedMatrix);
\* setMatrixLoaded(true); finally setLoading(false).
MatrixFileParsed ==
    /\ pc = "parsed"
    /\ caller = "upload"
    /\ heap' = Append(heap, lookup)
    /\ matrix' = Len(heap) + 1
    /\ matrixLoaded' = TRUE
    /\ loading' = FALSE
    /\ effectDue' = TRUE
    /\ caller' = "none"
    /\ pc' = "idle"
    /\ UNCHANGED <<matrixText, lines, li, lookup, entriesWithEmptyCountries, ei,
                   pass1Lookup, merges, ruleTexts, rows, fi, filtered>>
    /\ UNCHANGED <<allRows, filteredRows, error, mounted, pending, events>>
    /\ UNCHANGED <<countryVars, excelVars, tableVars>>

\* file.text() rejects: setError(message); finally setLoading(false).
MatrixFileFailed ==
    /\ AppAtRest
    /\ \E op \in pending :
          /\ op.kind = "matrix"
          /\ FileOf(op).kind = "unreadable"
          /\ pending' = pending \ {op}
    /\ \E message \in ReadErrors : error' = message
    /\ loading' = FALSE
    /\ UNCHANGED <<heap, matrix, allRows, filteredRows, matrixLoaded, mounted,
                   effectDue, caller, events>>
    /\ UNCHANGED <<pipelineVars, countryVars, excelVars, tableVars>>

\* FileUpload.handleFile with a file it does not hand over: nothing is called.
handleFileIgnored ==
    /\ AppAtRest
    /\ Len(events) < MaxEvents
    /\ \/ \E file \in DataFiles :
             /\ ~handsOver(file, DataAccept)
             /\ events' = Append(events, Selection("data", file))
       \/ \E file \in MatrixFiles :
             /\ ~handsOver(file, MatrixAccept)
             /\ events' = Append(events, Selection("matrix", file))
    /\ UNCHANGED <<heap, matrix, allRows, filteredRows, loading, error, matrixLoaded,
                   mounted, effectDue, pending, caller>>
    /\ UNCHANGED <<pipelineVars, countryVars, excelVars, tableVars>>

\* resetToDefaultMatrix: parseMatrix(defaultMatrix) is called.
resetToDefaultMatrix ==
    /\ AppAtRest
    /\ Len(events) < MaxEvents
    /\ events' = Append(events, ResetClick)
    /\ caller' = "reset"
    /\ BeginParse(DefaultMatrixText)
    /\ UNCHANGED <<heap, matrix, allRows, filteredRows, loading, error, matrixLoaded,
                   mounted, effectDue, pending>>
    /\ UNCHANGED <<countryVars, excelVars, tableVars>>

\* resetToDefaultMatrix that refills the active Map instead of installing the new one.
resetToDefaultMatrixEnd_InPlace ==
    /\ pc = "parsed"
    /\ caller = "reset"
    /\ heap' = [heap EXCEPT ![matrix] = lookup]
    /\ matrixLoaded' = TRUE
    /\ error' = NoError
    /\ effectDue' = TRUE
    /\ caller' = "none"
    /\ pc' = "idle"
    /\ UNCHANGED <<matrixText, lines, li, lookup, entriesWithEmptyCountries, ei,
                   pass1Lookup, merges, ruleTexts, rows, fi, filtered>>
    /\ UNCHANGED <<matrix, allRows, filteredRows, loading, mounted, pending, events>>
    /\ UNCHANGED <<countryVars, excelVars, tableVars>>

\* resetToDefaultMatrix after parseMatrix: setMatrix(parsedMatrix);
\* setMatrixLoaded(true); setError(null).
resetToDefaultMatrixEnd ==
    /\ pc = "parsed"
    /\ caller = "reset"
    /\ heap' = Append(heap, lookup)
    /\ matrix' = Len(heap) + 1
    /\ matrixLoaded' = TRUE
    /\ error' = NoError
    /\ effectDue' = TRUE
    /\ caller' = "none"
    /\ pc' = "idle"
    /\ UNCHANGED <<matrixText, lines, li, lookup, entriesWithEmptyCountries, ei,
                   pass1Lookup, merges, ruleTexts, rows, fi, filtered>>
    /\ UNCHANGED <<allRows, filteredRows, loading, mounted, pending, events>>
    /\ UNCHANGED <<countryVars, excelVars, tableVars>>

(***************************************************************************)
(* ResultsTable: the columns on display, their order, the drag of a column *)
(* header and the filters of the columns.  A handler runs to its end       *)
(* together with the effects its state updates make due.  No column is     *)
(* sorted (sortColumn is null) and no search text is typed in a filter.    *)
(***************************************************************************)
\* null of draggedColumn and dragOverColumn; no column has the empty key.
NoColumn == ""

\* new Map() of columnFilters.
NoFilters == [k \in {} |-> {}]

MaxTableEvents == 3     \* user events on the table

AVAILABLE_COLUMNS ==
    << [key |-> "delivery", label |-> "Delivery", isDefault |-> TRUE],
       [key |-> "shipMethod", label |-> "Ship Method", isDefault |-> TRUE],
       [key |-> "country", label |-> "Country", isDefault |-> TRUE],
       [key |-> "customer", label |-> "Customer", isDefault |-> TRUE],
       [key |-> "outboundPendingLines", label |-> "Pending Lines", isDefault |-> TRUE],
       [key |-> "SSD Due Category", label |-> "SSD Due Category", isDefault |-> TRUE],
       [key |-> "nextOutboundStep", label |-> "Next Outbound Step", isDefault |-> FALSE],
       [key |-> "Next Outbound Step", label |-> "Next Outbound Step (Raw)", isDefault |-> FALSE],
       [key |-> "Order", label |-> "Order", isDefault |-> FALSE],
       [key |-> "Line", label |-> "Line", isDefault |-> FALSE],
       [key |-> "Status", label |-> "Status", isDefault |-> FALSE],
       [key |-> "Expected Completion Date", label |-> "Expected Completion Date", isDefault |-> FALSE],
       [key |-> "Item", label |-> "Item", isDefault |-> FALSE],
       [key |-> "Item Description", label |-> "Item Description", isDefault |-> FALSE],
       [key |-> "Quantity", label |-> "Quantity", isDefault |-> FALSE],
       [key |-> "Warehouse", label |-> "Warehouse", isDefault |-> FALSE],
       [key |-> "City", label |-> "City", isDefault |-> FALSE],
       [key |-> "State", label |-> "State", isDefault |-> FALSE] >>

\* The rows handed to the table, cut down to four of their fields.  No two of
\* the keys have the same normalized form, so every key is a column.
TableData ==
    { << [delivery |-> "D1", shipMethod |-> "FEDEX_GROUND", country |-> "FR"]
             @@ ("SSD Due Category" :> " Late "),
         [delivery |-> "D5", shipMethod |-> "DHL_EXPRESS", country |-> "US"]
             @@ ("SSD Due Category" :> "") >>,
      << [delivery |-> "D2", shipMethod |-> "FEDEX_GROUND", country |-> "FR"] >> }

\* The elements of seq that are in S, and those that are not, in order.
Within(seq, S) ==
    LET test(e) == e \in S
    IN  SelectSeq(seq, test)

Without(seq, S) ==
    LET test(e) == e \notin S
    IN  SelectSeq(seq, test)

Elements(seq) == {seq[i] : i \in 1..Len(seq)}

\* Object.keys(data[0])
availableKeys(rs) == IF Len(rs) = 0 THEN {} ELSE DOMAIN rs[1]

\* The columns of the model in the order of dataColumns: the default ones
\* first, then by label (Country, Delivery, Ship Method, SSD Due Category).
ColumnsByLabel == <<"country", "delivery", "shipMethod", "SSD Due Category">>

IsDefaultColumn(columnKey) ==
    \E i \in 1..Len(AVAILABLE_COLUMNS) :
        AVAILABLE_COLUMNS[i].key = columnKey /\ AVAILABLE_COLUMNS[i].isDefault

\* The keys of dataColumns, for keys among those of the model.
dataColumns(keySet) == Within(ColumnsByLabel, keySet)

\* The first effect: an empty visibleColumns becomes the default columns, and
\* the 'Next Outbound Step' column if the data has one.  A Set keeps the order
\* of insertion, so visibleColumns is a list without repetitions.
initVisibleColumns(visible, keySet) ==
    IF Len(dataColumns(keySet)) > 0 /\ Len(visible) = 0
    THEN LET defaults == SelectSeq(dataColumns(keySet), IsDefaultColumn)
             nextStepKey == IF "Next Outbound Step" \in keySet THEN <<"Next Outbound Step">>
                            ELSE IF "nextOutboundStep" \in keySet THEN <<"nextOutboundStep">>
                            ELSE <<>>
         IN  defaults \o Without(nextStepKey, Elements(defaults))
    ELSE visible

\* The second effect: the updater of setColumnOrder.
updateColumnOrder(visible, prevOrder, keySet) ==
    LET visibleArray == Within(visible, keySet)
    IN  IF Len(visibleArray) = 0 THEN prevOrder
        ELSE IF \/ Len(prevOrder) = 0
                \/ Len(visibleArray) # Len(prevOrder)
                \/ ~(Elements(visibleArray) \subseteq Elements(prevOrder))
             THEN Within(prevOrder, Elements(visibleArray))
                      \o Without(visibleArray, Elements(prevOrder))
             ELSE prevOrder

visibleColumnsArray(visible, order, keySet) ==
    LET visibleSet == Elements(Within(visible, keySet))
    IN  Within(order, visibleSet) \o Without(Within(visible, keySet), Elements(order))

\* String(row[columnKey] || '').trim()
cellValue(row, columnKey) == IF columnKey \in DOMAIN row THEN Trim(row[columnKey]) ELSE ""

\* columnUniqueValues.get(columnKey) || [], as a set.
getUniqueColumnValues(rs, columnKey) ==
    IF columnKey \in availableKeys(rs)
    THEN {cellValue(rs[i], columnKey) : i \in 1..Len(rs)}
    ELSE {}

\* filteredAndSortedData with sortColumn null.
filteredAndSortedData(rs, filters) ==
    LET passes(row) ==
            \A columnKey \in DOMAIN filters :
                filters[columnKey] = {} \/ cellValue(row, columnKey) \in filters[columnKey]
    IN  IF DOMAIN filters # {} THEN SelectSeq(rs, passes) ELSE rs

\* next.set(columnKey, allowed) and next.delete(columnKey) on a copy of the Map.
MapSet(map, columnKey, allowed) ==
    [k \in DOMAIN map \cup {columnKey} |-> IF k = columnKey THEN allowed ELSE map[k]]

MapDelete(map, columnKey) == [k \in DOMAIN map \ {columnKey} |-> map[k]]

\* toggleFilterValue that keeps the entry of a column whose last value is removed.
toggledFilters_KeepsEmpty(filters, columnKey, cell) ==
    LET currentFilter == IF columnKey \in DOMAIN filters THEN filters[columnKey] ELSE {}
        newFilter == IF cell \in currentFilter
                     THEN currentFilter \ {cell}
                     ELSE currentFilter \cup {cell}
    IN  MapSet(filters, columnKey, newFilter)

\* The updater of toggleFilterValue.
toggledFilters(filters, columnKey, cell) ==
    LET currentFilter == IF columnKey \in DOMAIN filters THEN filters[columnKey] ELSE {}
        newFilter == IF cell \in currentFilter
                     THEN currentFilter \ {cell}
                     ELSE currentFilter \cup {cell}
    IN  IF newFilter = {} THEN MapDelete(filters, columnKey)
        ELSE MapSet(filters, columnKey, newFilter)

\* The updater of handleDrop that allows for the removal when it inserts.
droppedOrder_AdjustedIndex(prevOrder, dragged, targetColumnKey) ==
    LET draggedIndex == IndexOfElement(prevOrder, dragged)
        targetIndex  == IndexOfElement(prevOrder, targetColumnKey)
        removed      == SubSeq(prevOrder, 1, draggedIndex - 1)
                            \o SubSeq(prevOrder, draggedIndex + 1, Len(prevOrder))
        at           == IF draggedIndex < targetIndex THEN targetIndex - 1 ELSE targetIndex
    IN  IF draggedIndex = NotFound \/ targetIndex = NotFound THEN prevOrder
        ELSE SubSeq(removed, 1, at - 1) \o <<dragged>> \o SubSeq(removed, at, Len(removed))

\* The updater of handleDrop: splice(draggedIndex, 1), splice(targetIndex, 0, draggedColumn).
droppedOrder(prevOrder, dragged, targetColumnKey) ==
    LET draggedIndex == IndexOfElement(prevOrder, dragged)
        targetIndex  == IndexOfElement(prevOrder, targetColumnKey)
        removed      == SubSeq(prevOrder, 1, draggedIndex - 1)
                            \o SubSeq(prevOrder, draggedIndex + 1, Len(prevOrder))
    IN  IF draggedIndex = NotFound \/ targetIndex = NotFound THEN prevOrder
        ELSE SubSeq(removed, 1, targetIndex - 1) \o <<dragged>>
                 \o SubSeq(removed, targetIndex, Len(removed))

\* The table is not rendered.
TableIdle ==
    /\ data = <<>>
    /\ visibleColumns = <<>>
    /\ columnOrder = <<>>
    /\ draggedColumn = NoColumn
    /\ dragOverColumn = NoColumn
    /\ columnFilters = NoFilters
    /\ handled = <<>>

\* The headers on display.
Headers == Elements(visibleColumnsArray(visibleColumns, columnOrder, availableKeys(data)))

\* A user event on the table is handled; handled records the handlers called.
Handle(name, columnKey) ==
    /\ Len(handled) < MaxTableEvents
    /\ handled' = Append(handled, [name |-> name, key |-> columnKey])
    /\ UNCHANGED <<pipelineVars, countryVars, appVars, excelVars>>

\* The component is rendered with other rows: both effects run.
dataChanged ==
    /\ Handle("data", NoColumn)
    /\ \E rs \in TableData \ {data} :
          /\ data' = rs
          /\ visibleColumns' = initVisibleColumns(visibleColumns, availableKeys(rs))
          /\ columnOrder' = updateColumnOrder(visibleColumns', columnOrder, availableKeys(rs))
    /\ UNCHANGED <<draggedColumn, dragOverColumn, columnFilters>>

\* toggleColumn, from the column selector, and the effects that follow.
toggleColumn ==
    /\ \E columnKey \in Elements(dataColumns(availableKeys(data))) :
          /\ Handle("toggleColumn", columnKey)
          /\ visibleColumns' =
                initVisibleColumns(IF columnKey \in Elements(visibleColumns)
                                   THEN Without(visibleColumns, {columnKey})
                                   ELSE Append(visibleColumns, columnKey),
                                   availableKeys(data))
    /\ columnOrder' = updateColumnOrder(visibleColumns', columnOrder, availableKeys(data))
    /\ UNCHANGED <<data, draggedColumn, dragOverColumn, columnFilters>>

handleDragStart ==
    /\ \E columnKey \in Headers :
          /\ Handle("handleDragStart", columnKey)
          /\ draggedColumn' = columnKey
    /\ UNCHANGED <<data, visibleColumns, columnOrder, dragOverColumn, columnFilters>>

handleDragOver ==
    /\ \E columnKey \in Headers :
          /\ Handle("handleDragOver", columnKey)
          /\ dragOverColumn' = IF draggedColumn # NoColumn /\ draggedColumn # columnKey
                               THEN columnKey
                               ELSE dragOverColumn
    /\ UNCHANGED <<data, visibleColumns, columnOrder, draggedColumn, columnFilters>>

handleDragLeave ==
    /\ Handle("handleDragLeave", NoColumn)
    /\ dragOverColumn' = NoColumn
    /\ UNCHANGED <<data, visibleColumns, columnOrder, draggedColumn, columnFilters>>

handleDrop ==
    /\ \E targetColumnKey \in Headers :
          /\ Handle("handleDrop", targetColumnKey)
          /\ columnOrder' = IF draggedColumn = NoColumn \/ draggedColumn = targetColumnKey
                            THEN columnOrder
                            ELSE droppedOrder(columnOrder, draggedColumn, targetColumnKey)
    /\ draggedColumn' = NoColumn
    /\ dragOverColumn' = NoColumn
    /\ UNCHANGED <<data, visibleColumns, columnFilters>>

handleDragEnd ==
    /\ Handle("handleDragEnd", NoColumn)
    /\ draggedColumn' = NoColumn
    /\ dragOverColumn' = NoColumn
    /\ UNCHANGED <<data, visibleColumns, columnOrder, columnFilters>>

\* The checkbox of a value in the filter of a column.
toggleFilterValue ==
    /\ \E columnKey \in Headers :
          /\ Handle("toggleFilterValue", columnKey)
          /\ \E cell \in getUniqueColumnValues(data, columnKey) :
                columnFilters' = toggledFilters(columnFilters, columnKey, cell)
    /\ UNCHANGED <<data, visibleColumns, columnOrder, draggedColumn, dragOverColumn>>

\* 'Select All' in the filter of a column.
selectAllValues ==
    /\ \E columnKey \in Headers :
          /\ Handle("selectAllValues", columnKey)
          /\ columnFilters' =
                MapSet(columnFilters, columnKey, getUniqueColumnValues(data, columnKey))
    /\ UNCHANGED <<data, visibleColumns, columnOrder, draggedColumn, dragOverColumn>>

\* 'Clear' in the filter of a column that has a filter.
clearColumnFilter ==
    /\ \E columnKey \in Headers :
          /\ columnKey \in DOMAIN columnFilters
          /\ columnFilters[columnKey] # {}
          /\ Handle("clearColumnFilter", columnKey)
          /\ columnFilters' = MapDelete(columnFilters, columnKey)
    /\ UNCHANGED <<data, visibleColumns, columnOrder, draggedColumn, dragOverColumn>>

\* 'Clear Filters', shown when some value is selected.
clearAllFilters ==
    /\ \E columnKey \in DOMAIN columnFilters : columnFilters[columnKey] # {}
    /\ Handle("clearAllFilters", NoColumn)
    /\ columnFilters' = NoFilters
    /\ UNCHANGED <<data, visibleColumns, columnOrder, draggedColumn, dragOverColumn>>

(***************************************************************************)
(* Specifications.                                                         *)
(***************************************************************************)
\* parseMatrix has been entered with text and has split it into lines.
ParseStart(text) ==
    /\ matrixText = text
    /\ lines = Split(text, {"\n"})
    /\ li = 1
    /\ lookup = EmptyLookup
    /\ entriesWithEmptyCountries = <<>>
    /\ ei = 0
    /\ pass1Lookup = EmptyLookup
    /\ merges = {}
    /\ ruleTexts = EmptyLookup
    /\ rows = <<>>
    /\ fi = 0
    /\ filtered = <<>>
    /\ pc = "pass1"
    /\ callCountriesStr = ""
    /\ callCountries = {}
    /\ callCountry = ""
    /\ callMatched = FALSE
    /\ cpc = "idle"
    /\ AppIdle
    /\ ExcelIdle
    /\ TableIdle

Init == \E text \in PipelineTexts : ParseStart(text)

InitMatrix == \E text \in MatrixTexts : ParseStart(text)

\* parseCountries is about to be called with text; no rule table is involved.
InitCountries ==
    /\ matrixText = ""
    /\ lines = <<>>
    /\ li = 0
    /\ lookup = EmptyLookup
    /\ entriesWithEmptyCountries = <<>>
    /\ ei = 0
    /\ pass1Lookup = EmptyLookup
    /\ merges = {}
    /\ ruleTexts = EmptyLookup
    /\ rows = <<>>
    /\ fi = 0
    /\ filtered = <<>>
    /\ pc = "idle"
    /\ callCountriesStr \in CountryTexts
    /\ callCountries = {}
    /\ callCountry = ""
    /\ callMatched = FALSE
    /\ cpc = "call"
    /\ AppIdle
    /\ ExcelIdle
    /\ TableIdle

NextCountries == ParseCountriesCall \/ CountryMatchesCall

\* The component before its first effect: useState(new Map()), useState([]), ...
InitApp ==
    /\ matrixText = ""
    /\ lines = <<>>
    /\ li = 0
    /\ lookup = EmptyLookup
    /\ entriesWithEmptyCountries = <<>>
    /\ ei = 0
    /\ pass1Lookup = EmptyLookup
    /\ merges = {}
    /\ ruleTexts = EmptyLookup
    /\ rows = <<>>
    /\ fi = 0
    /\ filtered = <<>>
    /\ pc = "idle"
    /\ callCountriesStr = ""
    /\ callCountries = {}
    /\ callCountry = ""
    /\ callMatched = FALSE
    /\ cpc = "idle"
    /\ heap = <<EmptyLookup>>
    /\ matrix = 1
    /\ allRows = <<>>
    /\ filteredRows = <<>>
    /\ loading = FALSE
    /\ error = NoError
    /\ matrixLoaded = FALSE
    /\ mounted = FALSE
    /\ effectDue = TRUE
    /\ pending = {}
    /\ caller = "none"
    /\ events = <<>>
    /\ ExcelIdle
    /\ TableIdle

\* parseExcelFile(file) has been called and the reader is reading the file.
InitExcel ==
    /\ matrixText = ""
    /\ lines = <<>>
    /\ li = 0
    /\ lookup = EmptyLookup
    /\ entriesWithEmptyCountries = <<>>
    /\ ei = 0
    /\ pass1Lookup = EmptyLookup
    /\ merges = {}
    /\ ruleTexts = EmptyLookup
    /\ rows = <<>>
    /\ fi = 0
    /\ filtered = <<>>
    /\ pc = "idle"
    /\ callCountriesStr = ""
    /\ callCountries = {}
    /\ callCountry = ""
    /\ callMatched = FALSE
    /\ cpc = "idle"
    /\ AppIdle
    /\ excelFile \in ExcelFiles
    /\ excelResult = Rejected("")
    /\ xpc = "reading"
    /\ TableIdle

\* The table has been rendered with some rows and its effects have run.
InitTable ==
    /\ matrixText = ""
    /\ lines = <<>>
    /\ li = 0
    /\ lookup = EmptyLookup
    /\ entriesWithEmptyCountries = <<>>
    /\ ei = 0
    /\ pass1Lookup = EmptyLookup
    /\ merges = {}
    /\ ruleTexts = EmptyLookup
    /\ rows = <<>>
    /\ fi = 0
    /\ filtered = <<>>
    /\ pc = "idle"
    /\ callCountriesStr = ""
    /\ callCountries = {}
    /\ callCountry = ""
    /\ callMatched = FALSE
    /\ cpc = "idle"
    /\ AppIdle
    /\ ExcelIdle
    /\ data \in TableData
    /\ visibleColumns = initVisibleColumns(<<>>, availableKeys(data))
    /\ columnOrder = updateColumnOrder(visibleColumns, <<>>, availableKeys(data))
    /\ draggedColumn = NoColumn
    /\ dragOverColumn = NoColumn
    /\ columnFilters = NoFilters
    /\ handled = <<>>

NextTable ==
    \/ dataChanged \/ toggleColumn
    \/ handleDragStart \/ handleDragOver \/ handleDragLeave \/ handleDrop \/ handleDragEnd
    \/ toggleFilterValue \/ selectAllValues \/ clearColumnFilter \/ clearAllFilters

NextExcel == ReaderOnError \/ ReaderOnLoad

NextApp ==
    \/ MountEffect \/ MountEffectEnd
    \/ FilterEffect \/ FilterEffectEnd
    \/ handleDataFileSelect \/ DataFileParsed \/ DataFileFailed
    \/ handleMatrixFileSelect \/ MatrixFileRead \/ MatrixFileParsed \/ MatrixFileFailed
    \/ handleFileIgnored
    \/ resetToDefaultMatrix \/ resetToDefaultMatrixEnd
    \/ Pass1Step \/ Pass1Done \/ Pass2Step \/ Pass2Done
    \/ FilterStep \/ FilterDone

NextMatrix == Pass1Step \/ Pass1Done \/ Pass2Step \/ Pass2Done

Next == NextMatrix \/ FilterCall \/ FilterStep \/ FilterDone

\* The pipeline: a rule table is parsed, then rows are filtered with it.
Spec == Init /\ [][Next]_vars

\* parseMatrix alone, over a larger set of rule tables.
SpecMatrix == InitMatrix /\ [][NextMatrix]_vars

\* parseCountries, then countryMatches, over a set of country texts.
SpecCountries == InitCountries /\ [][NextCountries]_vars

\* The application: its effects, its handlers and the calls they make.
SpecApp == InitApp /\ [][NextApp]_vars

\* parseExcelFile alone, over a set of files.
SpecExcel == InitExcel /\ [][NextExcel]_vars

\* The results table: its columns, the drag of a header and its filters.
SpecTable == InitTable /\ [][NextTable]_vars

(***************************************************************************)
(* Vocabulary of the properties.                                           *)
(***************************************************************************)
\* The rows the filter has decided so far.
Decided == IF pc \in {"filter", "done"} THEN 1..(fi - 1) ELSE {}

Kept(row) == \E j \in 1..Len(filtered) : filtered[j] = row

\* The country texts of the rule lines of the table that name shipMethod.
RuleTexts(shipMethod) == IF shipMethod \in DOMAIN ruleTexts THEN ruleTexts[shipMethod] ELSE {}

InRegion(country) == ToUpperCase(Trim(country)) \in EU_COUNTRIES

\* The ship method and the country of a row; a row without the field has none.
ShipMethodOf(row) == IF "shipMethod" \in DOMAIN row THEN row.shipMethod ELSE ""

CountryOf(row) == IF "country" \in DOMAIN row THEN row.country ELSE ""

\* The membership predicate, as the specification of the filter words it.
Member(row, lk) ==
    LET shipMethod == Trim(ShipMethodOf(row))
        country    == ToUpperCase(Trim(CountryOf(row)))
    IN  /\ shipMethod # ""
        /\ country # ""
        /\ shipMethod \in DOMAIN lk
        /\ lk[shipMethod] # {}
        /\ \/ country \in lk[shipMethod]
           \/ ("__OUTSIDE_EU__" \in lk[shipMethod] /\ country \notin EU_COUNTRIES)

(***************************************************************************)
(* C1  A row is kept if and only if its trimmed ship method and country    *)
(* are non-empty, the lookup has a non-empty country set under exactly     *)
(* that ship method, and the uppercased country is in the set or the set   *)
(* holds the sentinel and the country is outside the reference region; a   *)
(* row with a blank ship method or country is never kept.                  *)
(***************************************************************************)
C1_KeptIffMember ==
    /\ \A i \in Decided : Kept(rows[i]) <=> Member(rows[i], lookup)
    /\ \A j \in 1..Len(filtered) :
          Trim(ShipMethodOf(filtered[j])) # "" /\ Trim(CountryOf(filtered[j])) # ""

\* A row kept through the sentinel alone, next to a row with a blank field
\* that is dropped although the lookup has entries.
C1_Witness ==
    /\ pc = "done"
    /\ DOMAIN lookup # {}
    /\ \E i \in Decided :
          /\ Kept(rows[i])
          /\ ToUpperCase(Trim(CountryOf(rows[i]))) \notin lookup[Trim(ShipMethodOf(rows[i]))]
    /\ \E i \in Decided :
          /\ ~Kept(rows[i])
          /\ (Trim(ShipMethodOf(rows[i])) = "" \/ Trim(CountryOf(rows[i])) = "")

(***************************************************************************)
(* C2  The list filterLogspecLines returns is the subsequence of its input *)
(* made of the rows that satisfy the membership predicate, in input order, *)
(* each as often as it occurs in the input; with the rule                  *)
(* LogSpec/FEDEX_GROUND/FR|DE and the rows FR and US of FEDEX_GROUND it is *)
(* exactly the FR row.                                                     *)
(***************************************************************************)
C2_Subsequence ==
    pc = "done" =>
        /\ filtered = Restrict(rows, {i \in 1..Len(rows) : Member(rows[i], lookup)})
        /\ (/\ matrixText = "LogSpec\tFEDEX_GROUND\tFR|DE"
            /\ rows = <<Row("D1", "FEDEX_GROUND", "FR"), Row("D2", "FEDEX_GROUND", "US")>>)
           => filtered = <<Row("D1", "FEDEX_GROUND", "FR")>>

\* The scenario of the specification has run.
C2_Witness ==
    /\ pc = "done"
    /\ matrixText = "LogSpec\tFEDEX_GROUND\tFR|DE"
    /\ rows = <<Row("D1", "FEDEX_GROUND", "FR"), Row("D2", "FEDEX_GROUND", "US")>>
    /\ filtered = <<Row("D1", "FEDEX_GROUND", "FR")>>

\* Two different rows are kept, so that their order shows.
C2_WitnessOrder ==
    /\ pc = "done"
    /\ Len(filtered) = 2
    /\ filtered[1] # filtered[2]

(***************************************************************************)
(* C9  For a ship method whose only rule has the country text              *)
(* 'Outside of EU', a row of that ship method with a country is kept if    *)
(* its country is outside the reference region and dropped if it is in     *)
(* it; the lookup holds the sentinel for it, not the countries it admits.  *)
(***************************************************************************)
C9_Sentinel ==
    \A i \in Decided :
        LET shipMethod == Trim(ShipMethodOf(rows[i]))
        IN  (RuleTexts(shipMethod) = {"Outside of EU"} /\ Trim(CountryOf(rows[i])) # "") =>
                /\ Kept(rows[i]) <=> ~InRegion(CountryOf(rows[i]))
                /\ "__OUTSIDE_EU__" \in lookup[shipMethod]
                /\ Kept(rows[i]) => ToUpperCase(Trim(CountryOf(rows[i]))) \notin lookup[shipMethod]

\* 'US' was kept and 'FR' dropped for such a ship method.
C9_Witness ==
    /\ pc = "done"
    /\ \E i, j \in Decided :
          /\ Trim(ShipMethodOf(rows[i])) = Trim(ShipMethodOf(rows[j]))
          /\ RuleTexts(Trim(ShipMethodOf(rows[i]))) = {"Outside of EU"}
          /\ CountryOf(rows[i]) = "US" /\ Kept(rows[i])
          /\ CountryOf(rows[j]) = "FR" /\ ~Kept(rows[j])

(***************************************************************************)
(* C10  A row with country 'FR' is kept when the only rule of its ship     *)
(* method has the country text 'Within EU' and when it has the text        *)
(* 'FR|DE'; a row with country 'PL' is dropped when the only rule of its   *)
(* ship method has the text 'FR|DE'.                                       *)
(***************************************************************************)
C10_RegionExpansion ==
    \A i \in Decided :
        LET texts == RuleTexts(Trim(ShipMethodOf(rows[i])))
        IN  /\ (texts \in {{"Within EU"}, {"FR|DE"}} /\ CountryOf(rows[i]) = "FR") => Kept(rows[i])
            /\ (texts = {"FR|DE"} /\ CountryOf(rows[i]) = "PL") => ~Kept(rows[i])

\* The three cases of the claim in one run.
C10_Witness ==
    /\ pc = "done"
    /\ \E i \in Decided :
          RuleTexts(Trim(ShipMethodOf(rows[i]))) = {"Within EU"} /\ CountryOf(rows[i]) = "FR" /\ Kept(rows[i])
    /\ \E i \in Decided :
          RuleTexts(Trim(ShipMethodOf(rows[i]))) = {"FR|DE"} /\ CountryOf(rows[i]) = "PL" /\ ~Kept(rows[i])

C10_WitnessList ==
    /\ pc = "done"
    /\ \E i \in Decided :
          RuleTexts(Trim(ShipMethodOf(rows[i]))) = {"FR|DE"} /\ CountryOf(rows[i]) = "FR" /\ Kept(rows[i])

(***************************************************************************)
(* Vocabulary of the properties of parseMatrix.                            *)
(***************************************************************************)
\* shipMethod has a line whose country field is empty after trimming.
HasEmptyCountryLine(shipMethod) == "" \in RuleTexts(shipMethod)

\* The normalized form of a key: every '_LICENSE' removed, then every '_UD',
\* 'AIRHAZ' replaced by 'AIR', every '_HAZ' and every '_DEF' removed, lowercased.
NormalForm(key) ==
    LET a == ReplaceAll(key, "_LICENSE", "")
        b == ReplaceAll(a, "_UD", "")
        c == ReplaceAll(b, "AIRHAZ", "AIR")
        d == ReplaceAll(c, "_HAZ", "")
        e == ReplaceAll(d, "_DEF", "")
    IN  ToLowerCase(e)

Segments(key) == Split(key, {"_"})

\* The segments of key without the last one, as written.
WrittenPrefix(key) == Join(SubSeq(Segments(key), 1, Len(Segments(key)) - 1), "_")

\* The keys that are similar to target in the lookup pass 1 left.
SimilarAfterPass1(target) ==
    {k \in DOMAIN pass1Lookup \ {target} :
        /\ pass1Lookup[k] # {}
        /\ \/ NormalForm(k) = NormalForm(target)
           \/ /\ Len(Segments(target)) > 2
              /\ StartsWith(ToLowerCase(k), ToLowerCase(WrittenPrefix(target)) \o "_")
              /\ Cardinality(pass1Lookup[k]) >= 5}

(***************************************************************************)
(* C3  With the rule table of the two lines LogSpec/CARRIER_AIR_STD/GB|IE  *)
(* and LogSpec/CARRIER_AIR_UD_STD/ (nothing after the last tab), the       *)
(* lookup parseMatrix returns has the key CARRIER_AIR_UD_STD with the      *)
(* country set {GB, IE}.                                                   *)
(***************************************************************************)
C3_InferenceScenario ==
    (/\ pc = "parsed"
     /\ matrixText = "LogSpec\tCARRIER_AIR_STD\tGB|IE\nLogSpec\tCARRIER_AIR_UD_STD\t")
    => /\ "CARRIER_AIR_UD_STD" \in DOMAIN lookup
       /\ lookup["CARRIER_AIR_UD_STD"] = {"GB", "IE"}

(***************************************************************************)
(* C4  The keys of the lookup parseMatrix returns are exactly the trimmed  *)
(* ship-method fields of the lines that are non-blank, have at least three *)
(* tab-separated fields and a first field equal to 'LogSpec' whatever the  *)
(* case, a line with an empty country field included.  (Ship-method fields *)
(* that are empty after trimming are left out here: they are never keys.)  *)
(***************************************************************************)
C4_ClaimedKeys ==
    {Trim(Split(lines[i], {"\t"})[2]) :
        i \in {j \in 1..Len(lines) :
                 /\ Trim(lines[j]) # ""
                 /\ Len(Split(lines[j], {"\t"})) >= 3
                 /\ ToLowerCase(Trim(Split(lines[j], {"\t"})[1])) = "logspec"
                 /\ Trim(Split(lines[j], {"\t"})[2]) # ""}}

C4_KeySet == pc = "parsed" => DOMAIN lookup = C4_ClaimedKeys

(***************************************************************************)
(* C5  Every key pass 2 takes countries from had a non-empty country set   *)
(* when pass 1 ended: a key that pass 2 filled is never the source of      *)
(* another key.                                                            *)
(***************************************************************************)
C5_NonTransitive ==
    \A m \in merges : m.source \in DOMAIN pass1Lookup /\ pass1Lookup[m.source] # {}

C8_PrefixAsWritten ==
    \A m \in merges :
        NormalForm(m.source) # NormalForm(m.target) =>
            /\ Len(Segments(m.target)) > 2
            /\ StartsWith(m.source, WrittenPrefix(m.target) \o "_")
            /\ m.size >= 5

(***************************************************************************)
(* C8, amended  A key K with another normalized form than the target T     *)
(* gives T its countries only if T has more than two segments, K in lower  *)
(* case starts with T's segments but the last in lower case and '_' (the   *)
(* letter case of the keys is ignored), and K has at least 5 countries     *)
(* when T is processed.                                                    *)
(***************************************************************************)
C8_PrefixIgnoringCase ==
    \A m \in merges :
        NormalForm(m.source) # NormalForm(m.target) =>
            /\ Len(Segments(m.target)) > 2
            /\ StartsWith(ToLowerCase(m.source), ToLowerCase(WrittenPrefix(m.target)) \o "_")
            /\ m.size >= 5

\* A sibling gave its countries to a target whose prefix is written in another
\* case, and a sibling with fewer than 5 countries gave none to its target.
C8_Witness ==
    \E m \in merges :
        /\ NormalForm(m.source) # NormalForm(m.target)
        /\ ~StartsWith(m.source, WrittenPrefix(m.target) \o "_")

C8_WitnessSmallSibling ==
    /\ pc = "parsed"
    /\ \E T \in DOMAIN lookup :
          /\ HasEmptyCountryLine(T)
          /\ lookup[T] = {}
          /\ Len(Segments(T)) > 2
          /\ \E K \in DOMAIN lookup :
                /\ StartsWith(K, WrittenPrefix(T) \o "_")
                /\ K # T
                /\ Cardinality(lookup[K]) \in 1..4

(***************************************************************************)
(* Vocabulary of the properties of parseCountries.                         *)
(***************************************************************************)
\* parseCountries has returned.
CountriesParsed == cpc \in {"parsed", "matched"}

\* The codes written in the country texts that also hold 'Within EU'.
CodesBesideWithinEU ==
    [t \in {"Within EU|GB|US", "Within EU, also US and CA"} |->
        IF t = "Within EU|GB|US" THEN {"GB", "US"} ELSE {"US", "CA"}]

(***************************************************************************)
(* C11  Mixed entries: the codes of a country text are extracted whether   *)
(* or not it holds a region keyword.  'GB, plus Outside of EU shipments'   *)
(* yields a set with 'GB' and the sentinel, and a record with country 'JP' *)
(* matches it although 'JP' is not in the set; a text with 'Within EU' and *)
(* codes yields the countries of the region and those codes (and the token *)
(* 'EU' of the keyword, itself a code of the text).                        *)
(***************************************************************************)
C11_MixedEntries ==
    /\ (CountriesParsed /\ callCountriesStr = "GB, plus Outside of EU shipments") =>
          /\ {"GB", "__OUTSIDE_EU__"} \subseteq callCountries
          /\ "JP" \notin callCountries
          /\ (cpc = "matched" /\ callCountry = "JP") => callMatched
    /\ (CountriesParsed /\ callCountriesStr \in DOMAIN CodesBesideWithinEU) =>
          /\ EU_COUNTRIES \cup CodesBesideWithinEU[callCountriesStr] \subseteq callCountries
          /\ callCountries \subseteq
                EU_COUNTRIES \cup CodesBesideWithinEU[callCountriesStr] \cup {"EU"}

\* 'JP' matched the mixed entry with the sentinel.
C11_Witness ==
    /\ cpc = "matched"
    /\ callCountriesStr = "GB, plus Outside of EU shipments"
    /\ callCountry = "JP"
    /\ callMatched
    /\ "GB" \in callCountries

\* A text with 'Within EU' and codes was parsed.
C11_WitnessWithin ==
    /\ CountriesParsed
    /\ callCountriesStr = "Within EU|GB|US"
    /\ {"FR", "GB", "US"} \subseteq callCountries

(***************************************************************************)
(* C12  Deny-list: the set parseCountries returns holds none of 'EA',      *)
(* 'XY', 'NC', whatever the country text and whichever step found the      *)
(* token; 'NC Import Only' yields a set without 'NC'.                      *)
(***************************************************************************)
C12_DenyList ==
    CountriesParsed =>
        /\ callCountries \cap {"EA", "XY", "NC"} = {}
        /\ callCountriesStr = "NC Import Only" => "NC" \notin callCountries

\* A text with a deny-listed token between pipes beside a code: the code is
\* in the set, and a record with country 'NC' does not match it.
C12_Witness ==
    /\ cpc = "matched"
    /\ callCountriesStr = "|NC|GB|"
    /\ callCountries = {"GB"}
    /\ callCountry = "NC"
    /\ ~callMatched

(***************************************************************************)
(* C18  For a country text with 'Within EU' the set parseCountries returns *)
(* holds every code the region classifier isEUCountry recognizes, and for  *)
(* the text 'Within EU' alone the expansion adds nothing else: apart from  *)
(* the token 'EU' of the text the set is EU_COUNTRIES.                     *)
(***************************************************************************)
C18_ExpansionIsRegion ==
    (CountriesParsed /\ Includes(callCountriesStr, "Within EU")) =>
        /\ \A c \in EU_COUNTRIES \cup callCountries \cup CountryPool :
              isEUCountry(c) /\ ToUpperCase(c) = c => c \in callCountries
        /\ callCountriesStr = "Within EU" =>
              \A c \in callCountries \ {"EU"} : isEUCountry(c)

\* 'Within EU' was parsed and a record of a country of the region matched.
C18_Witness ==
    /\ cpc = "matched"
    /\ callCountriesStr = "Within EU"
    /\ Cardinality(callCountries) > 1
    /\ isEUCountry(callCountry)
    /\ callMatched

(***************************************************************************)
(* Vocabulary of the properties of pass 1.                                 *)
(***************************************************************************)
\* The tab-separated fields of a line, as written.
RawFields(line) == Split(line, {"\t"})

\* The fields of a rule line, its surrounding white space put aside.
RuleFields(line) == Split(Trim(line), {"\t"})

\* A valid line: three fields or more, the tag 'LogSpec' in any case, a ship method.
IsRuleLine(line) ==
    /\ Len(RuleFields(line)) >= 3
    /\ ToLowerCase(Trim(RuleFields(line)[1])) = "logspec"
    /\ Trim(RuleFields(line)[2]) # ""

RuleKey(line) == Trim(RuleFields(line)[2])

RuleCountryText(line) == Trim(RuleFields(line)[3])

(***************************************************************************)
(* C13  When pass 1 has ended, the country set of a key is the union of    *)
(* parseCountries of the country field of each valid line with that key:   *)
(* no line overwrites an earlier one.                                      *)
(***************************************************************************)
C13_UnionOfLines ==
    (pc = "pass2" /\ ei = 1) =>
        \A k \in DOMAIN lookup :
            lookup[k] =
                UNION {parseCountries(RuleCountryText(lines[j])) :
                         j \in {i \in 1..Len(lines) : IsRuleLine(lines[i]) /\ RuleKey(lines[i]) = k}}

\* Two lines of one key whose countries differ: the key has the countries of both.
C13_Witness ==
    /\ pc = "pass2"
    /\ ei = 1
    /\ \E k \in DOMAIN pass1Lookup :
          \E i, j \in 1..Len(lines) :
              /\ i < j
              /\ IsRuleLine(lines[i]) /\ RuleKey(lines[i]) = k
              /\ IsRuleLine(lines[j]) /\ RuleKey(lines[j]) = k
              /\ parseCountries(RuleCountryText(lines[i])) \ parseCountries(RuleCountryText(lines[j])) # {}
              /\ parseCountries(RuleCountryText(lines[j])) \ parseCountries(RuleCountryText(lines[i])) # {}
              /\ parseCountries(RuleCountryText(lines[i])) \subseteq pass1Lookup[k]

(***************************************************************************)
(* C14  Blank lines, lines with fewer than three tab-separated fields and  *)
(* lines whose first field is not 'LogSpec' in any letter case contribute  *)
(* nothing: the lookup parseMatrix returns is the lookup of the rule table *)
(* without those lines.                                                    *)
(***************************************************************************)
C14_Retained(line) ==
    /\ Trim(line) # ""
    /\ Len(RawFields(line)) >= 3
    /\ ToLowerCase(Trim(RawFields(line)[1])) = "logspec"

C14_IgnoredLines ==
    pc = "parsed" => lookup = parseMatrix(Join(SelectSeq(lines, C14_Retained), "\n"))

C19_KeysAsWritten ==
    pc = "parsed" =>
        /\ \A k \in DOMAIN lookup :
              /\ k # ""
              /\ Trim(k) = k
              /\ \E j \in 1..Len(lines) :
                    \E f \in 1..Len(RawFields(lines[j])) : Trim(RawFields(lines[j])[f]) = k
        /\ \A j \in 1..Len(lines) : IsRuleLine(lines[j]) => RuleKey(lines[j]) \in DOMAIN lookup

\* Two keys that differ only in case, a key whose field had white space around
\* it, and a line with an empty ship method that made no entry.
C19_Witness ==
    /\ pc = "parsed"
    /\ \E j \in 1..Len(lines) :
          /\ Len(RawFields(lines[j])) >= 3
          /\ Trim(RawFields(lines[j])[2]) = ""
          /\ ToLowerCase(Trim(RawFields(lines[j])[1])) = "logspec"
    /\ \E k1, k2 \in DOMAIN lookup : k1 # k2 /\ ToLowerCase(k1) = ToLowerCase(k2)

C19_WitnessTrimmed ==
    /\ pc = "parsed"
    /\ \E j \in 1..Len(lines) :
          /\ IsRuleLine(lines[j])
          /\ RawFields(lines[j])[2] # RuleKey(lines[j])
          /\ RuleKey(lines[j]) \in DOMAIN lookup

(***************************************************************************)
(* C20  Pass 2 leaves the country set of every key that is non-empty after *)
(* pass 1 as pass 1 left it, also when the key has lines with an empty     *)
(* country field and similar keys with other countries.                    *)
(***************************************************************************)
C20_NonEmptyKeysKept ==
    pc \in {"pass2", "parsed"} =>
        \A k \in DOMAIN pass1Lookup : pass1Lookup[k] # {} => lookup[k] = pass1Lookup[k]

\* A key with countries and with a line with an empty country field went
\* through pass 2 beside a similar key that has other countries.
C20_Witness ==
    /\ pc = "parsed"
    /\ \E k \in DOMAIN lookup :
          /\ pass1Lookup[k] # {}
          /\ \E i \in 1..Len(entriesWithEmptyCountries) : entriesWithEmptyCountries[i][1] = k
          /\ \E m \in SimilarAfterPass1(k) : ~(pass1Lookup[m] \subseteq pass1Lookup[k])

(***************************************************************************)
(* C16  The core never fails.  parseMatrix returns a lookup for every text *)
(* (the empty lookup when no line is valid) and filterLogspecLines returns *)
(* a list for every list of rows (the empty list when there are no rows or *)
(* the lookup is empty; a row without ship method or country is not in     *)
(* it): every run ends with a result, no run stops before it.              *)
(***************************************************************************)
C16_Returned ==
    /\ pc \in {"parsed", "filter", "done"} =>
          ((\A j \in 1..Len(lines) : ~IsRuleLine(lines[j])) => lookup = EmptyLookup)
    /\ \A i \in Decided :
          (Trim(ShipMethodOf(rows[i])) = "" \/ Trim(CountryOf(rows[i])) = "") => ~Kept(rows[i])
    /\ pc = "done" => ((rows = <<>> \/ lookup = EmptyLookup) => filtered = <<>>)

\* How far a run has come: the stage it is in and the iterations it has made.
C16_Stage ==
    CASE pc = "pass1"  -> 0
      [] pc = "pass2"  -> 1
      [] pc = "parsed" -> 2
      [] pc = "filter" -> 3
      [] pc = "done"   -> 4

C16_Progress == C16_Stage + li + ei + fi

\* The loops make at most one iteration per line, per entry and per row.
C16_Bounded ==
    /\ pc \in {"pass1", "pass2", "parsed", "filter", "done"}
    /\ li <= Len(lines) + 1
    /\ ei <= Len(entriesWithEmptyCountries) + 1
    /\ Len(entriesWithEmptyCountries) <= Len(lines)
    /\ fi <= Len(rows) + 1

\* A run is always at a point of parseMatrix or of filterLogspecLines (where a
\* loop either makes its next iteration or ends), every step brings it further,
\* and it cannot go further than its input is long: the run ends, and it ends
\* with the results C16_Returned describes.
C16_NeverFails ==
    /\ [](C16_Returned /\ C16_Bounded)
    /\ [][C16_Progress' > C16_Progress]_vars

\* A table of non-blank lines none of which is valid gave the empty lookup, and
\* rows, one of them without a ship method, gave the empty list.
C16_Witness ==
    /\ pc = "done"
    /\ \E j \in 1..Len(lines) : Trim(lines[j]) # ""
    /\ lookup = EmptyLookup
    /\ \E i \in 1..Len(rows) : "shipMethod" \notin DOMAIN rows[i]
    /\ filtered = <<>>

\* A row without a country was dropped under a rule that admits the countries
\* outside the region, beside a row that was kept.
C16_WitnessMissingCountry ==
    /\ pc = "done"
    /\ Len(filtered) = 1
    /\ \E i \in 1..Len(rows) :
          /\ "country" \notin DOMAIN rows[i]
          /\ ShipMethodOf(rows[i]) \in DOMAIN lookup
          /\ "__OUTSIDE_EU__" \in lookup[ShipMethodOf(rows[i])]

(***************************************************************************)
(* C17  A lookup is immutable once parseMatrix has returned it.  No step   *)
(* of the application changes the keys or the country sets of a Map that   *)
(* exists; filterLogspecLines, with countryMatches in it, works on the     *)
(* active Map and leaves it and its rows as they are; loading or resetting *)
(* a rule table makes a new Map the active one and leaves the Map that was *)
(* active as it was.                                                       *)
(***************************************************************************)
C17_Filtering == pc \in {"filter", "done"}

C17_Step ==
    /\ Len(heap') >= Len(heap)
    /\ \A id \in 1..Len(heap) : heap'[id] = heap[id]
    /\ matrix' # matrix => matrix' \notin 1..Len(heap)
    /\ C17_Filtering =>
          /\ lookup' = lookup
          /\ rows' = rows
          /\ allRows' = allRows
          /\ matrix' = matrix

C17_Immutable ==
    /\ [](C17_Filtering => (lookup = heap[matrix] /\ rows = allRows))
    /\ [](matrix \in 1..Len(heap))
    /\ [][C17_Step]_vars

\* A custom rule table was loaded over the default one, rows were filtered with
\* it, and the Map of the default table is still what parseMatrix made it.
C17_Witness ==
    /\ pc = "idle"
    /\ Len(heap) = 3
    /\ matrix = 3
    /\ heap[2] = parseMatrix(DefaultMatrixText)
    /\ heap[3] # heap[2]
    /\ filteredRows # <<>>

\* The default rule table was loaded again by a reset after a custom one.
C17_WitnessReset ==
    /\ pc = "idle"
    /\ Len(heap) = 4
    /\ matrix = 4
    /\ heap[4] = heap[2]
    /\ heap[3] # heap[2]

(***************************************************************************)
(* C21  For a ship method whose only rule line has the country text        *)
(* 'Within EU', a row of that ship method with a non-empty country is kept *)
(* if and only if its uppercased country is in the reference region        *)
(* EU_COUNTRIES; no country outside the region is kept under such a rule.  *)
(***************************************************************************)
C21_WithinEUIffRegion ==
    \A i \in Decided :
        LET shipMethod == Trim(ShipMethodOf(rows[i]))
        IN  (RuleTexts(shipMethod) = {"Within EU"} /\ Trim(CountryOf(rows[i])) # "") =>
                (Kept(rows[i]) <=> InRegion(CountryOf(rows[i])))

\* The same, for the rows whose country is not the word 'EU' of the rule text.
C21_ExceptTheWordEU ==
    \A i \in Decided :
        LET shipMethod == Trim(ShipMethodOf(rows[i]))
        IN  (/\ RuleTexts(shipMethod) = {"Within EU"}
             /\ Trim(CountryOf(rows[i])) # ""
             /\ ToUpperCase(Trim(CountryOf(rows[i]))) # "EU") =>
                (Kept(rows[i]) <=> InRegion(CountryOf(rows[i])))

(***************************************************************************)
(* C22  The lookup parseMatrix builds does not depend on the order of the  *)
(* lines of the rule table: the table with the same lines in any other     *)
(* order yields the same keys with the same country sets, those of the     *)
(* inference pass included.                                                *)
(***************************************************************************)
\* The sequences that hold the elements of seq in some order.
Reorderings(seq) ==
    LET n == Len(seq)
    IN  {[j \in 1..n |-> seq[p[j]]] :
            p \in {f \in [1..n -> 1..n] : \A i, j \in 1..n : f[i] = f[j] => i = j}}

C22_OrderIndependent ==
    pc = "parsed" =>
        \A ls \in Reorderings(lines) : parseMatrix(Join(ls, "\n")) = lookup

\* The same for the lookup as the first loop leaves it.
C22_Pass1OrderIndependent ==
    (pc = "pass2" /\ ei = 1) =>
        \A ls \in Reorderings(lines) : firstPass(ls).lookup = lookup

(***************************************************************************)
(* Vocabulary of C23.                                                      *)
(***************************************************************************)
\* <<i, j>>: the characters i..j of s are a maximal run of uppercase letters.
UpperRuns(s) ==
    {r \in (1..Len(s)) \X (1..Len(s)) :
        /\ r[1] <= r[2]
        /\ \A k \in r[1]..r[2] : Char(s, k) \in UpperSet
        /\ (r[1] = 1 \/ Char(s, r[1] - 1) \notin UpperSet)
        /\ (r[2] = Len(s) \/ Char(s, r[2] + 1) \notin UpperSet)}

\* The characters next to the run r of s; the ends of the text have none.
Neighbours(s, r) ==
    (IF r[1] > 1 THEN {Char(s, r[1] - 1)} ELSE {})
        \cup (IF r[2] < Len(s) THEN {Char(s, r[2] + 1)} ELSE {})

\* The runs of 2 to 3 uppercase letters of s with no neighbour in excluded.
BoundedRuns(s, excluded) ==
    {SubSeq(s, r[1], r[2]) :
        r \in {q \in UpperRuns(s) :
                 /\ q[2] - q[1] + 1 \in 2..3
                 /\ Neighbours(s, q) \cap excluded = {}}}

\* What the region keywords of s add to the set.
RegionPart(s) ==
    (IF Includes(s, "Within EU") THEN EU_COUNTRIES ELSE {})
        \cup (IF Includes(s, "Outside of EU") THEN {"__OUTSIDE_EU__"} ELSE {})

(***************************************************************************)
(* C23  As claimed: beside what the region keywords add, the codes         *)
(* parseCountries returns are the maximal runs of 2 to 3 uppercase letters *)
(* that have no letter next to them, deny-listed tokens left out: a run    *)
(* next to a digit or an underscore ('GB2', '_GB') is a code, a run of     *)
(* four or more uppercase letters or next to a lowercase letter is not.    *)
(***************************************************************************)
C23_BoundedByNonLetters ==
    CountriesParsed =>
        callCountries = RegionPart(callCountriesStr)
            \cup (BoundedRuns(callCountriesStr, LowerSet) \ {"EA", "XY", "NC"})

(***************************************************************************)
(* C23  As the code has it: beside what the region keywords add, the codes *)
(* parseCountries returns are the maximal runs of 2 to 3 uppercase letters *)
(* that have no letter, digit or underscore next to them, deny-listed      *)
(* tokens left out: a run next to a digit, an underscore or a lowercase    *)
(* letter ('GB2', '_GB', 'aGB') is not a code, nor is any part of a run of *)
(* four or more uppercase letters.                                         *)
(***************************************************************************)
C23_BoundedByNonWordChars ==
    CountriesParsed =>
        /\ callCountries = RegionPart(callCountriesStr)
              \cup (BoundedRuns(callCountriesStr, LowerSet \cup DigitSet \cup {"_"})
                        \ {"EA", "XY", "NC"})
        /\ callCountriesStr = "GB2|_GB|ABCD|aGB" => callCountries = {}

\* The text with the runs next to a digit, an underscore and a lowercase
\* letter was parsed, and so was a text whose runs stand between punctuation.
C23_Witness ==
    /\ CountriesParsed
    /\ callCountriesStr = "GB2|_GB|ABCD|aGB"
    /\ callCountries = {}

C23_WitnessPunctuation ==
    /\ CountriesParsed
    /\ callCountriesStr = "(GB) FR-DE, IT."
    /\ callCountries = {"GB", "FR", "DE", "IT"}

(***************************************************************************)
(* Vocabulary of C30.                                                      *)
(***************************************************************************)
\* The header row has a column named, ignoring case and outer white space,
\* by one of names.
HasColumn(headers, names) ==
    \E i \in 1..Len(headers) : ToLowerCase(Trim(headers[i])) \in names

HasRequiredColumns(headers) ==
    /\ HasColumn(headers, {"delivery", "delivery number"})
    /\ HasColumn(headers, {"ship method"})
    /\ HasColumn(headers, {"country"})

\* The cell of row under the first column named name; a row that ends before
\* that column has an empty cell there.
CellUnder(headers, row, name) ==
    LET i == CHOOSE c \in 1..Len(headers) :
                /\ ToLowerCase(Trim(headers[c])) = name
                /\ \A d \in 1..(c - 1) : ToLowerCase(Trim(headers[d])) # name
    IN  IF i <= Len(row) THEN row[i] ELSE ""

ExcelSettled == xpc = "settled" /\ excelFile.kind = "workbook"

C30_WitnessMissingColumn ==
    /\ ExcelSettled
    /\ Len(excelFile.jsonData) = 3
    /\ excelFile.jsonData[1] = <<"Delivery", "Country">>
    /\ excelResult = Rejected("Required columns not found. Expected: Delivery, Ship Method, Country")

\* The empty sheet was rejected.
C30_WitnessEmptySheet ==
    /\ ExcelSettled
    /\ excelFile.jsonData = <<>>
    /\ excelResult = Rejected("File is empty")

(***************************************************************************)
(* Vocabulary of the properties of the application.                        *)
(***************************************************************************)
\* The rows the application is to display for the rows rs and the matrix lk.
C24_Expected(rs, lk) ==
    IF DOMAIN lk # {} /\ Len(rs) > 0
    THEN Restrict(rs, {i \in 1..Len(rs) : Member(rs[i], lk)})
    ELSE <<>>

(***************************************************************************)
(* C24  In the application, after any data uploads, matrix uploads and     *)
(* resets, whenever no state update and no effect is pending, filteredRows *)
(* is filterLogspecLines(allRows, matrix) if the matrix has a key and      *)
(* allRows is not empty, and the empty list otherwise; every run of the    *)
(* filter yields the list its inputs determine, so that a run on unchanged *)
(* inputs yields the same list again.                                      *)
(***************************************************************************)
C24_FilteredRowsConsistent ==
    /\ AppAtRest =>
          /\ filteredRows = C24_Expected(allRows, heap[matrix])
          /\ (DOMAIN heap[matrix] # {} /\ Len(allRows) > 0) =>
                filteredRows = filterLogspecLines(allRows, heap[matrix])
    /\ (mounted /\ pc = "done") =>
          /\ filtered = filterLogspecLines(allRows, heap[matrix])
          /\ ~effectDue => filtered = C24_Expected(allRows, heap[matrix])

\* Two events have been handled and some, not all, of the rows are displayed.
C24_Witness ==
    /\ AppAtRest
    /\ Len(events) = 2
    /\ pending = {}
    /\ filteredRows # <<>>
    /\ filteredRows # allRows

\* The filter has run again after a reset that installed a matrix equal to the
\* one before it, on the same rows, and has computed the list on display.
C24_WitnessRerun ==
    /\ mounted
    /\ pc = "done"
    /\ Len(events) = 2
    /\ events[2] = ResetClick
    /\ heap[matrix] = heap[matrix - 1]
    /\ filtered # <<>>
    /\ filtered = filteredRows

\* Rows are loaded and a matrix without keys has been uploaded over the
\* default one: nothing is displayed.
C24_WitnessNoKeys ==
    /\ AppAtRest
    /\ allRows # <<>>
    /\ DOMAIN heap[matrix] = {}
    /\ pending = {}
    /\ filteredRows = <<>>

(***************************************************************************)
(* C25  When parsing an uploaded data file fails, handleDataFileSelect     *)
(* sets the error to the message of the failure, empties allRows and       *)
(* filteredRows, so that no rows of an earlier file stay displayed, sets   *)
(* loading to false and leaves the active matrix as it is.                 *)
(***************************************************************************)
\* The read op of a data file settles in this step, with a rejection.
C25_Fails(op) ==
    /\ op \in pending
    /\ op \notin pending'
    /\ op.kind = "data"
    /\ parseExcelFile(FileOf(op)).status = "rejected"

C25_Step ==
    \A op \in pending :
        C25_Fails(op) =>
            /\ error' = parseExcelFile(FileOf(op)).message
            /\ error' # NoError
            /\ allRows' = <<>>
            /\ filteredRows' = <<>>
            /\ loading' = FALSE
            /\ matrix' = matrix
            /\ heap' = heap

C25_ParseFailure == [][C25_Step]_vars

\* The parse of a second file has failed while rows of a first file were on
\* display (rows and filtered are still those of the last run of the filter).
C25_Witness ==
    /\ error = "Required columns not found. Expected: Delivery, Ship Method, Country"
    /\ Len(events) = 2
    /\ pending = {}
    /\ effectDue
    /\ rows # <<>>
    /\ filtered # <<>>
    /\ allRows = <<>>
    /\ filteredRows = <<>>
    /\ ~loading
    /\ heap[matrix] = parseMatrix(DefaultMatrixText)

(***************************************************************************)
(* C26  A custom matrix file with a '.txt' name, chosen or dropped in the  *)
(* matrix uploader, is handed to handleMatrixFileSelect, which makes       *)
(* parseMatrix of the text of the file the active matrix, in place of the  *)
(* default one: once the file has been selected and nothing is pending,    *)
(* the active matrix is the lookup of its text.                            *)
(***************************************************************************)
\* The last user event is the selection of a file of the matrix uploader whose
\* name ends with suffix, it has been dealt with and its text has been read.
C26_MatrixFileSelected(suffix) ==
    /\ AppAtRest
    /\ pending = {}
    /\ Len(events) > 0
    /\ events[Len(events)].kind = "select"
    /\ events[Len(events)].uploader = "matrix"
    /\ events[Len(events)].file.kind = "text"
    /\ EndsWith(events[Len(events)].file.name, suffix)

C26_TxtMatrixInstalled ==
    C26_MatrixFileSelected(".txt") =>
        heap[matrix] = parseMatrix(events[Len(events)].file.text)

\* The same for a matrix file whose name ends with '.xls', selected when no
\* other matrix file had been selected.
C26_XlsMatrixInstalled ==
    (/\ C26_MatrixFileSelected(".xls")
     /\ \A i \in 1..(Len(events) - 1) : events[i].uploader # "matrix") =>
        heap[matrix] = parseMatrix(events[Len(events)].file.text)

(***************************************************************************)
(* C27  If data file A is selected and then data file B, before the parse  *)
(* of A has completed, then once both parses have completed allRows holds  *)
(* the rows of B, the file selected last, whichever parse finishes first.  *)
(***************************************************************************)
\* The event is the selection of a data file that is handed over and whose
\* parse resolves.
C27_DataSelection(event) ==
    /\ event.kind = "select"
    /\ event.uploader = "data"
    /\ handsOver(event.file, DataAccept)
    /\ parseExcelFile(event.file).status = "resolved"

\* Data files have been selected, nothing else, and every parse has completed.
C27_AllCompleted ==
    /\ AppAtRest
    /\ pending = {}
    /\ Len(events) > 0
    /\ \A i \in 1..Len(events) : C27_DataSelection(events[i])

C27_LastSelectedWins ==
    C27_AllCompleted => allRows = parseExcelFile(events[Len(events)].file).rows

\* With one data file selected, allRows holds its rows.
C27_SingleSelection ==
    (C27_AllCompleted /\ Len(events) = 1) => allRows = parseExcelFile(events[1].file).rows

\* The number of times columnKey occurs in seq.
Occurrences(seq, columnKey) == Len(Within(seq, {columnKey}))

\* The step is a call of handleDrop; its target is the key recorded.
C28_IsDrop == Len(handled') = Len(handled) + 1 /\ handled'[Len(handled')].name = "handleDrop"

C28_Reorders ==
    LET target == handled'[Len(handled')].key
    IN  /\ draggedColumn # NoColumn
        /\ draggedColumn # target
        /\ draggedColumn \in Elements(columnOrder)
        /\ target \in Elements(columnOrder)

C28_Step ==
    C28_IsDrop =>
        LET target == handled'[Len(handled')].key
        IN  /\ draggedColumn' = NoColumn
            /\ dragOverColumn' = NoColumn
            /\ IF C28_Reorders
               THEN /\ Len(columnOrder') = Len(columnOrder)
                    /\ \A columnKey \in Elements(columnOrder) \cup Elements(columnOrder') :
                          Occurrences(columnOrder', columnKey)
                              = Occurrences(columnOrder, columnKey)
                    /\ columnOrder'[IndexOfElement(columnOrder, target)] = draggedColumn
                    /\ Without(columnOrder', {draggedColumn})
                          = Without(columnOrder, {draggedColumn})
               ELSE columnOrder' = columnOrder

\* C28: a call of handleDrop with a dragged column A and another target B,
\* both in columnOrder, leaves a permutation of columnOrder in which A is at
\* the index B had and the other columns keep their relative order; with A
\* equal to B, with no column dragged or with a key that is not in
\* columnOrder, columnOrder is unchanged; draggedColumn and dragOverColumn
\* are null after every call.
C28_HandleDrop == [][C28_Step]_vars

\* 'country', first of four columns, has been dropped on 'shipMethod', third:
\* it is third now, past the target.
C28_Witness ==
    /\ Len(handled) = 2
    /\ handled[1] = [name |-> "handleDragStart", key |-> "country"]
    /\ handled[2] = [name |-> "handleDrop", key |-> "shipMethod"]
    /\ columnOrder = <<"delivery", "shipMethod", "country", "SSD Due Category">>
    /\ draggedColumn = NoColumn
    /\ dragOverColumn = NoColumn

\* The column dragged left columnOrder, with the rows that have no such key,
\* before it was dropped: the order is as it was.
C28_WitnessAbsentKey ==
    /\ Len(handled) = 3
    /\ handled[1] = [name |-> "handleDragStart", key |-> "SSD Due Category"]
    /\ handled[2].name = "data"
    /\ handled[3] = [name |-> "handleDrop", key |-> "country"]
    /\ columnOrder = <<"country", "delivery", "shipMethod">>
    /\ draggedColumn = NoColumn

\* A column has been dropped on itself.
C28_WitnessOnItself ==
    /\ Len(handled) = 2
    /\ handled[1] = [name |-> "handleDragStart", key |-> "delivery"]
    /\ handled[2] = [name |-> "handleDrop", key |-> "delivery"]
    /\ columnOrder = ColumnsByLabel
    /\ draggedColumn = NoColumn

\* The rows on display, by the words of the claim: those whose trimmed cell
\* is among the values allowed of every column that has an entry.
C29_Displayed ==
    LET allowed(row) ==
            \A columnKey \in DOMAIN columnFilters :
                cellValue(row, columnKey) \in columnFilters[columnKey]
    IN  SelectSeq(data, allowed)

\* C29: whatever was clicked among the values of the filters, 'Select All',
\* 'Clear' and 'Clear Filters', columnFilters has no column with an empty set
\* of values, and the rows on display are those whose trimmed cell is among
\* the values allowed of every column that has an entry.
C29_NoEmptyFilter ==
    /\ \A columnKey \in DOMAIN columnFilters : columnFilters[columnKey] # {}
    /\ filteredAndSortedData(data, columnFilters) = C29_Displayed

\* The one value selected of 'country' has been unselected again: the column
\* has no entry, and every row is on display.
C29_Witness ==
    /\ Len(handled) = 2
    /\ handled[1] = [name |-> "toggleFilterValue", key |-> "country"]
    /\ handled[2] = [name |-> "toggleFilterValue", key |-> "country"]
    /\ columnFilters = NoFilters
    /\ Len(data) = 2
    /\ filteredAndSortedData(data, columnFilters) = data

\* A filter hides a row: of two rows, the one with the empty cell is shown.
C29_WitnessHidesRow ==
    /\ DOMAIN columnFilters = {"SSD Due Category"}
    /\ columnFilters["SSD Due Category"] = {""}
    /\ Len(data) = 2
    /\ filteredAndSortedData(data, columnFilters) = <<data[2]>>

\* 'Select All' of a column, then 'Clear' of it.
C29_WitnessSelectAllCleared ==
    /\ Len(handled) = 3
    /\ handled[1].name = "selectAllValues"
    /\ handled[2].name = "toggleFilterValue"
    /\ handled[3].name = "clearColumnFilter"
    /\ DOMAIN columnFilters # {}

====
